---- MODULE Spec2Model ----
(***************************************************************************)
(* TechStore ETL: the transformation entry points (transform_data.py and   *)
(* transform.py), and the quality auditor, as a state machine.             *)
(*                                                                         *)
(* Representation.                                                         *)
(*  - A table (DataFrame) is a sequence of records, in row order.          *)
(*  - A function that may return None returns [none |-> TRUE, rows |-> <<>>]*)
(*    and otherwise [none |-> FALSE, rows |-> the table].                  *)
(*  - A raw identifier is a sequence of characters (<<"P","1">> is 'P1'); a *)
(*    missing identifier (NaN) is the empty sequence.  A cleaned identifier *)
(*    is an integer.                                                       *)
(*  - A nullable number is <<>> (NaN) or <<v>>.                            *)
(*  - Money is an integer number of mills (1/1000 DZD), so that rounding   *)
(*    to 2 decimals (a multiple of 10 mills) is visible; an unrounded      *)
(*    quotient is a rational [n |-> numerator, d |-> denominator > 0].     *)
(***************************************************************************)
EXTENDS Integers, Sequences, FiniteSets, TLC

VARIABLES
    present,        \* names of the input files that exist
    sales,          \* data/extracted/sales.csv
    products,       \* data/extracted/products.csv
    customers,      \* data/extracted/customers.csv
    stores,         \* data/extracted/stores.csv
    cities,         \* data/extracted/cities.csv
    subcategories,  \* data/extracted/subcategories.csv
    categories,     \* data/extracted/categories.csv
    competitor,     \* data/extracted/competitor_prices.csv: [size in bytes, rows]
    legacy,         \* data/extracted/legacy_sales_2022.csv
    marketing,      \* data/flat_files/marketing_expenses.xlsx
    targets,        \* data/flat_files/monthly_targets.xlsx
    shipping,       \* data/flat_files/shipping_rates.xlsx
    reviews,        \* data/extracted/reviews.csv
    similarity,     \* fuzzywuzzy's score (0..100) of <<query, choice>>
    write_fails,    \* the files of data/transformed whose to_csv raises
    lacks,          \* <<file, column>>: columns a reader expects and a file lacks
    db,             \* database/techstore_dw.db: [exists, rows per table]
    dim_product,    \* transform_data.py: result of create_dim_product
    dim_store,      \* transform_data.py: result of create_dim_store
    dim_customer,   \* transform_data.py: result of create_dim_customer
    fact_sales,     \* transform_data.py: result of calculate_net_profit
    marketing_roi,  \* transform_data.py: result of calculate_marketing_roi
    dim_date,       \* transform_data.py: result of create_dim_date
    Dim_Product,    \* transform.py: dim_product
    Dim_Store,      \* transform.py: dim_store
    Dim_Customer,   \* transform.py: dim_customer
    Dim_Date,       \* transform.py: dim_date
    Fact_Sales,     \* transform.py: fact_sales
    td_pc,          \* position of transform_data.main
    t_pc,           \* position of the transform.py script
    disk,           \* data/transformed: file name -> "absent", "previous", "current"
    report,         \* DATA_QUALITY_REPORT.md as written by the auditor
    audit_pc,       \* position of the auditor's save_report
    auditor,        \* the EnhancedDataQualityAuditor object: score, checks, lines
    create_db_pc    \* position of the create_database.py script

extracts == <<present, sales, products, customers, stores, cities, subcategories,
              categories, competitor, legacy, marketing, targets, shipping,
              reviews, similarity, write_fails, lacks>>

inputs == <<extracts, db, create_db_pc>>

td_tables == <<dim_product, dim_store, dim_customer, fact_sales, marketing_roi,
               dim_date>>

t_tables == <<Dim_Product, Dim_Store, Dim_Customer, Dim_Date, Fact_Sales>>

published == <<disk, report, audit_pc, auditor>>

vars == <<inputs, td_tables, t_tables, td_pc, t_pc, published>>

(***************************************************************************)
(* Generic helpers: pandas operations on tables.                           *)
(***************************************************************************)
NoneDF == [none |-> TRUE, rows |-> <<>>]
DF(rows) == [none |-> FALSE, rows |-> rows]

NaN == <<>>
IsNa(x) == x = <<>>
Num(v) == <<v>>
FillNa(x, v) == IF IsNa(x) THEN v ELSE x[1]

Abs(x) == IF x < 0 THEN -x ELSE x

\* rationals n/d with d > 0: the unrounded float columns
Rat(n, d) == [n |-> n, d |-> d]
RatLess(a, b) == a.n * b.d < b.n * a.d
RatEq(a, b) == a.n * b.d = b.n * a.d
RatSub(a, b) == Rat(a.n * b.d - b.n * a.d, a.d * b.d)
RatAdd(a, b) == Rat(a.n * b.d + b.n * a.d, a.d * b.d)

RECURSIVE Concat(_)
Concat(ss) == IF ss = <<>> THEN <<>> ELSE Head(ss) \o Concat(Tail(ss))

RECURSIVE SumSeq(_)
SumSeq(s) == IF s = <<>> THEN 0 ELSE Head(s) + SumSeq(Tail(s))

\* the element of a singleton: {F(x) : x \in {e}} evaluates e once and F on
\* its value
TheOne(S) == CHOOSE y \in S : TRUE

\* one row per row of T, computed by F
Map(T, F(_)) == TheOne({[i \in 1..Len(t) |-> F(t[i])] : t \in {T}})

\* DataFrame.merge(how='left'): every left row, in order, once per matching
\* right row (in right order), or once with the right columns missing.
Merge(L, R, Match(_, _), Join(_, _), Miss(_)) ==
    TheOne({Concat([i \in 1..Len(l) |->
                TheOne({IF ms = <<>> THEN <<Miss(l[i])>>
                        ELSE [j \in 1..Len(ms) |-> Join(l[i], ms[j])] :
                            ms \in {SelectSeq(r, LAMBDA x : Match(l[i], x))}})]) :
            l \in {L}, r \in {R}})

\* the rows of T whose index is in S, in order
RECURSIVE RowsAt(_, _, _)
RowsAt(T, S, i) ==
    IF i > Len(T) THEN <<>>
    ELSE (IF i \in S THEN <<T[i]>> ELSE <<>>) \o RowsAt(T, S, i + 1)

\* DataFrame.drop_duplicates(subset=Key, keep='first')
DropDuplicates(T, Key(_)) ==
    TheOne({RowsAt(t, {i \in 1..Len(t) : \A j \in 1..(i - 1) : Key(t[j]) # Key(t[i])}, 1) :
            t \in {T}})

\* the elements of a finite set of integers, in ascending order
RECURSIVE SortedSeq(_)
SortedSeq(S) ==
    IF S = {} THEN <<>>
    ELSE LET m == CHOOSE x \in S : \A y \in S : x <= y
         IN  <<m>> \o SortedSeq(S \ {m})

\* the elements of a sequence of integers, in ascending order
RECURSIVE SortAscending(_)
SortAscending(s) ==
    IF s = <<>> THEN <<>>
    ELSE LET rest == SortAscending(Tail(s))
             h == Head(s)
         IN  SelectSeq(rest, LAMBDA x : x < h) \o <<h>>
             \o SelectSeq(rest, LAMBDA x : x >= h)

Count(T, P(_)) == Len(SelectSeq(T, P))

\* Series.duplicated().sum(): the rows whose key an earlier row already has
Duplicated(T, Key(_)) == TheOne({Len(t) - Len(DropDuplicates(t, Key)) : t \in {T}})

\* round half to even of the rational n/d (d > 0) to an integer: numpy's rint
RoundHalfEven(n, d) ==
    LET q == n \div d
        r == n % d
    IN  IF 2 * r < d THEN q
        ELSE IF 2 * r > d THEN q + 1
        ELSE IF q % 2 = 0 THEN q ELSE q + 1

\* Series.round(2) of an amount n/d mills: the nearest multiple of 10 mills
Round2Rat(n, d) == 10 * RoundHalfEven(n, 10 * d)
Round2(x) == Round2Rat(x, 1)
RoundNullable(x) == IF IsNa(x) THEN NaN ELSE Num(Round2(x[1]))

(***************************************************************************)
(* transform_data.py                                                       *)
(***************************************************************************)
EXCHANGE_RATE_USD_DZD == 135

DigitChars == {"0", "1", "2", "3", "4", "5", "6", "7", "8", "9"}
DigitVal(c) == CASE c = "0" -> 0 [] c = "1" -> 1 [] c = "2" -> 2 [] c = "3" -> 3
                 [] c = "4" -> 4 [] c = "5" -> 5 [] c = "6" -> 6 [] c = "7" -> 7
                 [] c = "8" -> 8 [] c = "9" -> 9

RECURSIVE DigitsToInt(_, _)
DigitsToInt(ds, acc) ==
    IF ds = <<>> THEN acc ELSE DigitsToInt(Tail(ds), 10 * acc + DigitVal(Head(ds)))

\* clean_id_column: drop every non-digit character, parse, NaN -> 0
clean_id_column(raw) ==
    DigitsToInt(SelectSeq(raw, LAMBDA c : c \in DigitChars), 0)

\* clean_dataframes: each flat file loses its exact duplicate rows
clean_dataframes(T) == DropDuplicates(T, LAMBDA r : r)

\* harmonize_currency: marketing_cost_dzd = (usd * rate).round(2)
harmonize_currency(mk) ==
    [i \in 1..Len(mk) |->
        [category |-> mk[i].category, month |-> mk[i].month,
         marketing_cost_dzd |-> Round2(mk[i].marketing_cost_usd * EXCHANGE_RATE_USD_DZD)]]

RequiredFiles ==
    {"sales.csv", "products.csv", "customers.csv", "cities.csv", "categories.csv"}

FALLBACK_SHIPPING == 50000

\* groupby(['category','month'])['total_revenue'].sum(), looked up for one row:
\* a row whose month is NaT belongs to no group (groupby drops NaT keys)
cat_month_total(E, e) ==
    IF IsNa(e.month) THEN NaN
    ELSE Num(SumSeq([i \in 1..Len(E) |->
             IF E[i].category = e.category /\ E[i].month = e.month
             THEN E[i].total_revenue ELSE 0]))

\* (total_revenue / cat_month_total) * marketing_cost_dzd, .fillna(0).round(2).
\* Revenues are non-negative, so a zero bucket total means 0/0 = NaN.
allocated_marketing_dzd(e) ==
    IF IsNa(e.cat_month_total) \/ IsNa(e.marketing_cost_dzd) THEN 0
    ELSE IF e.cat_month_total[1] = 0 THEN 0
    ELSE Round2Rat(e.total_revenue * e.marketing_cost_dzd[1], e.cat_month_total[1])

product_cost_of_one_unit(unit_cost, quantity) == Round2(FillNa(unit_cost, 0))

\* to_numeric(unit_cost).fillna(0), then (unit_cost * quantity).round(2)
product_cost(unit_cost, quantity) == Round2(FillNa(unit_cost, 0) * quantity)

\* the computed columns of one enriched row (lines 753-777)
td_profit_columns(e) ==
    LET cost == product_cost(e.unit_cost, e.quantity)
        ship == FillNa(e.shipping_cost, FALLBACK_SHIPPING)
        ship_total == Round2(ship * e.quantity)
        alloc == allocated_marketing_dzd(e)
        gross == Round2(e.total_revenue - cost)
        net == Round2(gross - ship_total - alloc)
    IN  [cost |-> cost, gross_profit |-> gross, shipping_cost |-> ship_total,
         marketing_cost |-> alloc, net_profit |-> net]

\* the category column of the enriched rows (lines 679-734)
td_with_category(E) ==
    IF "subcategories.csv" \in present
    THEN LET a == Merge(E, products,
                      LAMBDA l, r : l.product_id = r.product_id,
                      LAMBDA l, r : l @@ [subcategory_id |-> r.subcategory_id],
                      LAMBDA l : l @@ [subcategory_id |-> NaN])
             b == Merge(a, subcategories,
                      LAMBDA l, r : l.subcategory_id = r.subcategory_id,
                      LAMBDA l, r : l @@ [category_id |-> r.category_id],
                      LAMBDA l : l @@ [category_id |-> NaN])
         IN  Merge(b, categories,
                      LAMBDA l, r : l.category_id = r.category_id,
                      LAMBDA l, r : l @@ [category |-> r.category_name],
                      LAMBDA l : l @@ [category |-> "nan"])
    ELSE [i \in 1..Len(E) |-> E[i] @@ [category |-> "unknown"]]

\* calculate_net_profit(marketing_df, shipping_df)
calculate_net_profit(marketing_df, shipping_df) ==
    IF ~(RequiredFiles \subseteq present) THEN NoneDF
    ELSE
    LET s0 == DropDuplicates(sales, LAMBDA r : r.trans_id)
        e1 == Merge(s0, products,
                  LAMBDA l, r : l.product_id = r.product_id,
                  LAMBDA l, r : l @@ [unit_cost |-> r.unit_cost],
                  LAMBDA l : l @@ [unit_cost |-> NaN])
        e2 == Merge(e1, customers,
                  LAMBDA l, r : l.customer_id = r.customer_id,
                  LAMBDA l, r : l @@ [city_id |-> r.city_id],
                  LAMBDA l : l @@ [city_id |-> NaN])
        e3 == Merge(e2, cities,
                  LAMBDA l, r : l.city_id = r.city_id,
                  LAMBDA l, r : l @@ [region_name |-> r.region],
                  LAMBDA l : l @@ [region_name |-> "nan"])
        e4 == Merge(e3, shipping_df,
                  LAMBDA l, r : l.region_name = r.region_name,
                  LAMBDA l, r : l @@ [shipping_cost |-> Num(r.shipping_cost)],
                  LAMBDA l : l @@ [shipping_cost |-> NaN])
        e5 == td_with_category(e4)
        e6 == TheOne({[i \in 1..Len(E) |->
                  E[i] @@ [cat_month_total |-> cat_month_total(E, E[i])]] : E \in {e5}})
        e7 == Merge(e6, marketing_df,
                  LAMBDA l, r : l.category = r.category /\ l.month = r.month,
                  LAMBDA l, r : l @@ [marketing_cost_dzd |-> Num(r.marketing_cost_dzd)],
                  LAMBDA l : l @@ [marketing_cost_dzd |-> NaN])
        f == Map(e7, LAMBDA e :
                  [trans_id |-> clean_id_column(e.trans_id),
                   month |-> e.month,
                   store_id |-> clean_id_column(e.store_id),
                   product_id |-> clean_id_column(e.product_id),
                   customer_id |-> clean_id_column(e.customer_id),
                   quantity |-> e.quantity,
                   total_revenue |-> Round2(e.total_revenue)]
                  @@ td_profit_columns(e))
    IN  DF(DropDuplicates(f, LAMBDA r : r.trans_id))

ROI_MIN_MARKETING_COST == 1000

\* calculate_marketing_roi(fact_sales_df, marketing_df): the (category, month)
\* groups of the fact rows whose summed marketing_cost exceeds 1.0; any
\* exception (here the missing category_id column when subcategories.csv is
\* absent) gives the empty frame.  roi_percent is in hundredths of a percent.
calculate_marketing_roi(F) ==
    IF "subcategories.csv" \notin present THEN DF(<<>>)
    ELSE
    LET pr == [i \in 1..Len(products) |->
                  [product_id |-> clean_id_column(products[i].product_id),
                   subcategory_id |-> clean_id_column(products[i].subcategory_id)]]
        sc == [i \in 1..Len(subcategories) |->
                  [subcategory_id |-> clean_id_column(subcategories[i].subcategory_id),
                   category_id |-> clean_id_column(subcategories[i].category_id)]]
        ca == [i \in 1..Len(categories) |->
                  [category_id |-> clean_id_column(categories[i].category_id),
                   category_name |-> categories[i].category_name]]
        a == Merge(F, pr,
                  LAMBDA l, r : l.product_id = r.product_id,
                  LAMBDA l, r : l @@ [subcategory_id |-> Num(r.subcategory_id)],
                  LAMBDA l : l @@ [subcategory_id |-> NaN])
        b == Merge(a, sc,
                  LAMBDA l, r : l.subcategory_id = Num(r.subcategory_id),
                  LAMBDA l, r : l @@ [category_id |-> Num(r.category_id)],
                  LAMBDA l : l @@ [category_id |-> NaN])
        c == Merge(b, ca,
                  LAMBDA l, r : l.category_id = Num(r.category_id),
                  LAMBDA l, r : l @@ [category |-> r.category_name],
                  LAMBDA l : l @@ [category |-> "unknown"])
        g == DropDuplicates(SelectSeq(c, LAMBDA r : ~IsNa(r.month)),
                            LAMBDA r : <<r.category, r.month>>)
        roi == [i \in 1..Len(g) |->
                   LET rs == SelectSeq(c, LAMBDA r : r.category = g[i].category
                                                     /\ r.month = g[i].month)
                       rev == SumSeq([k \in 1..Len(rs) |-> rs[k].total_revenue])
                       mc == SumSeq([k \in 1..Len(rs) |-> rs[k].marketing_cost])
                   IN  [category |-> g[i].category, month |-> g[i].month,
                        total_revenue |-> Round2(rev), marketing_cost |-> Round2(mc),
                        roi_percent |-> IF mc > 0
                                        THEN RoundHalfEven((rev - mc) * 10000, mc)
                                        ELSE 0]]
    IN  DF(SelectSeq(roi, LAMBDA r : r.marketing_cost > ROI_MIN_MARKETING_COST))

\* targets_df.groupby('store_id').agg({'target_revenue': 'mean',
\* 'manager_name': 'first'}): one row per store id that is not <NA>
td_store_targets(tg) ==
    LET ids == DropDuplicates(SelectSeq(tg, LAMBDA r : ~IsNa(r.store_id)),
                              LAMBDA r : r.store_id)
    IN  [i \in 1..Len(ids) |->
            LET rs == SelectSeq(tg, LAMBDA r : r.store_id = ids[i].store_id)
            IN  [store_id |-> ids[i].store_id,
                 monthly_target |->
                     Rat(SumSeq([k \in 1..Len(rs) |-> rs[k].target_revenue]), Len(rs)),
                 manager_name |-> rs[1].manager_name]]

\* a CSV id column read as integers joins an Int64 column on the number
IsDigits(raw) == raw # <<>> /\ \A i \in 1..Len(raw) : raw[i] \in DigitChars

\* str.lower() on the characters the model uses
Lower(c) == CASE c = "A" -> "a" [] c = "B" -> "b" [] c = "C" -> "c" [] OTHER -> c

FUZZY_THRESHOLD == 80

LowerName(name) == [i \in 1..Len(name) |-> Lower(name[i])]

\* process.extractOne(query, choices): max(..., key=score), the first of the
\* choices with the highest score
extractOne(query, choices) ==
    LET sc(i) == similarity[<<query, choices[i]>>]
        k == CHOOSE i \in 1..Len(choices) :
                 /\ \A j \in 1..Len(choices) : sc(j) <= sc(i)
                 /\ \A j \in 1..(i - 1) : sc(j) < sc(i)
    IN  [best |-> choices[k], score |-> sc(k)]

\* if score > 80
accepted_above_or_at_threshold(score) == score >= FUZZY_THRESHOLD
accepted(score) == score > FUZZY_THRESHOLD

\* match(name) of integrate_competitor_prices: the price of the first row
\* whose lower-cased name is the best choice
match(name, comp_df) ==
    IF IsNa(name) THEN NaN
    ELSE LET comp_names == [j \in 1..Len(comp_df) |->
                               LowerName(comp_df[j].competitor_product_name)]
             one == extractOne(LowerName(name), comp_names)
             rows == SelectSeq(comp_df, LAMBDA c :
                         LowerName(c.competitor_product_name) = one.best)
         IN  IF accepted(one.score) THEN rows[1].competitor_price ELSE NaN

\* unit_price - competitor_price
price_difference(unit_price, competitor_price) ==
    IF IsNa(unit_price) \/ IsNa(competitor_price) THEN NaN
    ELSE Num(unit_price[1] - competitor_price[1])

\* ((price_difference / competitor_price) * 100).round(2), in hundredths of
\* a percent; a division by a price of 0 gives inf, or NaN for 0/0
price_difference_pct(unit_price, competitor_price) ==
    LET diff == price_difference(unit_price, competitor_price)
    IN  IF IsNa(diff) THEN NaN
        ELSE IF competitor_price[1] = 0
             THEN (IF diff[1] = 0 THEN NaN ELSE <<"inf">>)
        ELSE IF competitor_price[1] > 0
             THEN Num(RoundHalfEven(diff[1] * 10000, competitor_price[1]))
        ELSE Num(RoundHalfEven((0 - diff[1]) * 10000, 0 - competitor_price[1]))

\* the code point of the characters the ids of the model are made of
CharCode(c) ==
    CASE c \in DigitChars -> 48 + DigitVal(c)
      [] c = "A" -> 65 [] c = "P" -> 80 [] c = "S" -> 83 [] OTHER -> 95

\* a < b for two strings (sequences of characters)
RECURSIVE StrLess(_, _)
StrLess(a, b) ==
    IF b = <<>> THEN FALSE
    ELSE IF a = <<>> THEN TRUE
    ELSE IF Head(a) = Head(b) THEN StrLess(Tail(a), Tail(b))
    ELSE CharCode(Head(a)) < CharCode(Head(b))

\* the group keys of a groupby: the distinct values in ascending order
RECURSIVE SortedKeys(_)
SortedKeys(S) ==
    IF S = {} THEN <<>>
    ELSE LET m == CHOOSE x \in S : \A y \in S \ {x} : StrLess(x, y)
         IN  <<m>> \o SortedKeys(S \ {m})

\* the product ids of a review frame that are not NaN
ReviewedIds(df) == {df[i].product_id : i \in 1..Len(df)} \ {NaN}

\* SentimentIntensityAnalyzer().polarity_scores(text)['compound'], in
\* ten-thousandths, for the review texts of the model
polarity_compound(text) ==
    CASE text = "good" -> 4404 [] text = "bad" -> -5423 [] OTHER -> 0

\* the text is '' once NaN is filled and the text is stripped
IsBlank(text) == IsNa(text) \/ text[1] \in {"", " "}

\* round(compound, 2) if x else 0.0, in hundredths
sentiment_score(text) ==
    IF IsBlank(text) THEN 0 ELSE RoundHalfEven(polarity_compound(text[1]), 100)

\* Series.mean() of the ratings that are not NaN, as sum and count
rating_sum(rs) == SumSeq([i \in 1..Len(rs) |-> FillNa(rs[i].rating, 0)])
rating_count(rs) == Len(SelectSeq(rs, LAMBDA r : ~IsNa(r.rating)))

first_score(scores) == scores[1]

\* 'sentiment_score': 'mean' and .round(2), over the scores of one group
mean_score(scores) == RoundHalfEven(SumSeq(scores), Len(scores))

\* the aggregate row of one product: mean score and mean rating rounded to
\* hundredths, and the number of review rows
sentiment_row(id, rs) ==
    [product_id |-> id,
     avg_sentiment |->
         mean_score([i \in 1..Len(rs) |-> sentiment_score(rs[i].review_text)]),
     avg_rating |-> IF rating_count(rs) = 0 THEN NaN
                    ELSE Num(RoundHalfEven(100 * rating_sum(rs), rating_count(rs))),
     review_count |-> Len(rs)]

\* analyze_sentiment(), on the rows of reviews.csv: one row per product id,
\* in the order of the ids; an empty frame when the file is missing
analyze_sentiment(df) ==
    IF "reviews.csv" \notin present THEN <<>>
    ELSE TheOne({[k \in 1..Len(keys) |->
                     sentiment_row(keys[k],
                         SelectSeq(df, LAMBDA r : r.product_id = keys[k]))] :
                 keys \in {SortedKeys(ReviewedIds(df))}})

skipped_with_zero_prices(products_df) ==
    [i \in 1..Len(products_df) |->
        products_df[i] @@ [competitor_price |-> Num(0),
                           price_difference |-> products_df[i].unit_price,
                           price_difference_pct |-> NaN]]

\* the "skipped" exits: the three columns are set to None on every row
skipped(products_df) ==
    [i \in 1..Len(products_df) |->
        products_df[i] @@ [competitor_price |-> NaN, price_difference |-> NaN,
                           price_difference_pct |-> NaN]]

\* integrate_competitor_prices(products_df): a missing or empty file, or a
\* file without rows or without the two columns, leaves the three columns
\* null
integrate_competitor_prices(products_df) ==
    IF \/ "competitor_prices.csv" \notin present
       \/ competitor.size = 0
       \/ competitor.rows = <<>>
       \/ <<"competitor_prices.csv", "competitor_price">> \in lacks
    THEN skipped(products_df)
    ELSE [i \in 1..Len(products_df) |->
             LET price == match(products_df[i].product_name, competitor.rows)
             IN  products_df[i] @@
                 [competitor_price |-> price,
                  price_difference |-> price_difference(products_df[i].unit_price, price),
                  price_difference_pct |->
                      price_difference_pct(products_df[i].unit_price, price)]]

\* .fillna(0) of a column the left merge with sentiment_df left empty
filled(x) == Num(FillNa(x, 0))

\* create_dim_product(sentiment_df), sentiment_df being what analyze_sentiment
\* returned in the step before
create_dim_product ==
    IF "products.csv" \notin present THEN NoneDF
    ELSE
    LET a == IF "subcategories.csv" \in present
             THEN Merge(products, subcategories,
                      LAMBDA l, r : l.subcategory_id = r.subcategory_id,
                      LAMBDA l, r : l @@ [subcategory_name |-> r.subcategory_name,
                                         category_id |-> r.category_id],
                      LAMBDA l : l @@ [subcategory_name |-> "Unknown",
                                       category_id |-> NaN])
             ELSE [i \in 1..Len(products) |->
                      products[i] @@ [subcategory_name |-> "Unknown",
                                      category_id |-> NaN]]
        b == IF "categories.csv" \in present
             THEN Merge(a, categories,
                      LAMBDA l, r : l.category_id = r.category_id,
                      LAMBDA l, r : l @@ [category_name |-> r.category_name],
                      LAMBDA l : l @@ [category_name |-> "Unknown"])
             ELSE [i \in 1..Len(a) |-> a[i] @@ [category_name |-> "Unknown"]]
        b2 == Merge(b, analyze_sentiment(reviews),
                  LAMBDA l, r : l.product_id = r.product_id,
                  LAMBDA l, r : l @@ [avg_sentiment |-> Num(r.avg_sentiment),
                                     avg_rating |-> r.avg_rating,
                                     review_count |-> Num(r.review_count)],
                  LAMBDA l : l @@ [avg_sentiment |-> NaN, avg_rating |-> NaN,
                                   review_count |-> NaN])
        c == integrate_competitor_prices(b2)
        d == Map(c, LAMBDA r :
                 [product_id |-> clean_id_column(r.product_id),
                  product_name |-> r.product_name,
                  subcategory_id |-> clean_id_column(r.subcategory_id),
                  subcategory_name |-> r.subcategory_name,
                  category_id |-> clean_id_column(r.category_id),
                  category_name |-> r.category_name,
                  unit_price |-> RoundNullable(r.unit_price),
                  unit_cost |-> RoundNullable(r.unit_cost),
                  competitor_price |-> r.competitor_price,
                  price_difference |-> r.price_difference,
                  price_difference_pct |-> r.price_difference_pct,
                  avg_sentiment |-> filled(r.avg_sentiment),
                  avg_rating |-> filled(r.avg_rating),
                  review_count |-> filled(r.review_count)])
    IN  DF(DropDuplicates(d, LAMBDA r : r.product_id))

annual_target_of_eleven_months(monthly_target) == Round2(monthly_target * 11)

\* (dim_store['monthly_target'] * 12).round(2)
annual_target(monthly_target) == Round2(monthly_target * 12)

\* create_dim_store(targets_df)
create_dim_store ==
    IF "stores.csv" \notin present \/ "cities.csv" \notin present THEN NoneDF
    ELSE
    LET a == Merge(stores, cities,
                  LAMBDA l, r : l.city_id = r.city_id,
                  LAMBDA l, r : l @@ [city_name |-> r.city_name, region |-> r.region],
                  LAMBDA l : l @@ [city_name |-> "Unknown", region |-> "Unknown"])
        b == Merge(a, td_store_targets(clean_dataframes(targets)),
                  LAMBDA l, r : IsDigits(l.store_id)
                                /\ clean_id_column(l.store_id) = r.store_id[1],
                  LAMBDA l, r : l @@ [monthly_target |->
                                         Round2Rat(r.monthly_target.n, r.monthly_target.d),
                                     manager_name |-> r.manager_name],
                  LAMBDA l : l @@ [monthly_target |-> 0, manager_name |-> "Unknown"])
        d == [i \in 1..Len(b) |->
                 [store_id |-> clean_id_column(b[i].store_id),
                  store_name |-> b[i].store_name,
                  city_id |-> clean_id_column(b[i].city_id),
                  city_name |-> b[i].city_name,
                  region |-> b[i].region,
                  monthly_target |-> b[i].monthly_target,
                  annual_target |-> annual_target(b[i].monthly_target),
                  manager_name |-> b[i].manager_name]]
    IN  DF(DropDuplicates(d, LAMBDA r : r.store_id))

\* create_dim_customer()
create_dim_customer ==
    IF "customers.csv" \notin present \/ "cities.csv" \notin present THEN NoneDF
    ELSE
    LET c0 == [i \in 1..Len(customers) |->
                  [customer_id |-> clean_id_column(customers[i].customer_id),
                   full_name |-> customers[i].full_name,
                   city_id |-> clean_id_column(customers[i].city_id)]]
        ci == [i \in 1..Len(cities) |->
                  [city_id |-> clean_id_column(cities[i].city_id),
                   city_name |-> cities[i].city_name,
                   region |-> cities[i].region]]
        c1 == DropDuplicates(c0, LAMBDA r : r.customer_id)
        c2 == DropDuplicates(c1, LAMBDA r : <<r.full_name, r.city_id>>)
    IN  DF(Merge(c2, ci,
                  LAMBDA l, r : l.city_id = r.city_id,
                  LAMBDA l, r : l @@ [city_name |-> r.city_name, region |-> r.region],
                  LAMBDA l : l @@ [city_name |-> "Unknown", region |-> "Unknown"]))

(***************************************************************************)
(* transform.py                                                            *)
(***************************************************************************)
EXCHANGE_RATE == 135
LEGACY_FIRST_ID == 100001
COMPETITOR_MIN_BYTES == 100

RECURSIVE IntToDigits(_)
IntToDigits(n) ==
    LET d == <<"0", "1", "2", "3", "4", "5", "6", "7", "8", "9">>[(n % 10) + 1]
    IN  IF n < 10 THEN <<d>> ELSE Append(IntToDigits(n \div 10), d)

\* load_csv_safe: a missing file is an empty frame
load_csv_safe(name, content) == IF name \in present THEN content ELSE <<>>

\* df.drop_duplicates(inplace=True): exact duplicate rows only
t_drop_duplicates(T) == DropDuplicates(T, LAMBDA r : r)

has_legacy == "legacy_sales_2022.csv" \in present /\ Len(legacy) > 0

has_competitor ==
    /\ "competitor_prices.csv" \in present
    /\ competitor.size > COMPETITOR_MIN_BYTES
    /\ Len(competitor.rows) > 0

\* section 2: the cleaned sales frame, with the legacy rows appended
t_sales ==
    LET s == t_drop_duplicates(load_csv_safe("sales.csv", sales))
        legacy_subset ==
            [i \in 1..Len(legacy) |->
                [trans_id |-> IntToDigits(LEGACY_FIRST_ID + (i - 1)),
                 month |-> legacy[i].month,
                 store_id |-> <<"1">>,
                 product_id |-> <<"P", "1", "0", "0">>,
                 customer_id |-> legacy[i].customer_id,
                 quantity |-> FillNa(legacy[i].quantity, 1),
                 total_revenue |-> FillNa(legacy[i].total_revenue, 0)]]
    IN  IF has_legacy THEN s \o legacy_subset ELSE s

\* the columns of the legacy extract that section 2 reads by name
LegacyColumns == {"date", "customer_id", "quantity", "total_revenue"}

\* section 2, `if has_legacy:`: legacy['date'], legacy['quantity'],
\* legacy['total_revenue'] and legacy[[..., 'customer_id', ...]] raise
\* KeyError on a column the extract does not have, and nothing catches it
legacy_raises ==
    has_legacy /\ \E c \in LegacyColumns : <<"legacy_sales_2022.csv", c>> \in lacks

RECURSIVE Strip(_)
Strip(w) ==
    IF w = <<>> THEN w
    ELSE IF Head(w) = " " THEN Strip(Tail(w))
    ELSE IF w[Len(w)] = " " THEN Strip(SubSeq(w, 1, Len(w) - 1))
    ELSE w

WordChars == {"a", "b", "c", "A", "B", "C", "_"} \cup DigitChars

\* .str.lower().str.strip(), then .str.replace(r'[^\w\s]', '')
match_name(name) ==
    SelectSeq(Strip([i \in 1..Len(name) |-> Lower(name[i])]),
              LAMBDA c : c \in WordChars \/ c = " ")

IsSubstring(a, b) ==
    \E i \in 0..(Len(b) - Len(a)) : SubSeq(b, i + 1, i + Len(a)) = a

\* comp_dict.items(): the distinct match names in first-seen order, each with
\* the price of its last row
comp_dict(C) ==
    LET firsts == DropDuplicates(C, LAMBDA r : r.match_name)
    IN  [i \in 1..Len(firsts) |->
            LET same == SelectSeq(C, LAMBDA r : r.match_name = firsts[i].match_name)
            IN  [match_name |-> firsts[i].match_name,
                 competitor_price |-> same[Len(same)].competitor_price]]

\* the substring search of the rows the direct merge left without a price
partial_match(p, dict) ==
    LET hits == SelectSeq(dict, LAMBDA c :
                    /\ Len(p.match_name) >= 3 /\ Len(c.match_name) >= 3
                    /\ (IsSubstring(p.match_name, c.match_name)
                        \/ IsSubstring(c.match_name, p.match_name)))
    IN  IF IsNa(p.competitor_price) /\ hits # <<>>
        THEN hits[1].competitor_price ELSE p.competitor_price

\* section 3: analyze_sentiment(text), the compound score in ten-thousandths
t_sentiment_score(text) ==
    IF IsBlank(text) THEN 0 ELSE polarity_compound(text[1])

\* section 3: the aggregate row of one product: the unrounded means of the
\* scores and of the ratings, and the number of review ids
product_sentiment_row(id, rs) ==
    [product_id |-> id,
     avg_sentiment |->
         Rat(SumSeq([i \in 1..Len(rs) |-> t_sentiment_score(rs[i].review_text)]),
             Len(rs)),
     avg_rating |-> IF rating_count(rs) = 0 THEN NaN
                    ELSE Num(Rat(rating_sum(rs), rating_count(rs))),
     review_count |-> Len(SelectSeq(rs, LAMBDA r : ~IsNa(r.review_id)))]

\* section 3: reviews.groupby('product_id').agg(...).reset_index()
product_sentiment(rv) ==
    TheOne({[k \in 1..Len(keys) |->
                product_sentiment_row(keys[k],
                    SelectSeq(rv, LAMBDA r : r.product_id = keys[k]))] :
            keys \in {SortedKeys(ReviewedIds(rv))}})

\* the reviews frame after the cleaning of section 2
t_reviews == t_drop_duplicates(load_csv_safe("reviews.csv", reviews))

\* section 4: the review aggregates a product gets from the left merge;
\* a product without a review group gets NaN in the three columns
t_sentiment_columns(product_id) ==
    LET hits == SelectSeq(product_sentiment(t_reviews),
                          LAMBDA r : r.product_id = product_id)
    IN  IF IsNa(product_id) \/ hits = <<>>
        THEN [avg_sentiment |-> NaN, avg_rating |-> NaN, review_count |-> NaN]
        ELSE [avg_sentiment |-> Num(hits[1].avg_sentiment),
              avg_rating |-> hits[1].avg_rating,
              review_count |-> Num(hits[1].review_count)]

review_count(product_id) == t_sentiment_columns(product_id).review_count

\* sections 3 and 4: the products frame after the competitor price
\* integration and the merge of the review aggregates
t_products ==
    LET P == t_drop_duplicates(load_csv_safe("products.csv", products))
        C0 == t_drop_duplicates(competitor.rows)
        C == [i \in 1..Len(C0) |->
                 C0[i] @@ [match_name |-> match_name(C0[i].competitor_product_name)]]
        P1 == [i \in 1..Len(P) |-> P[i] @@ [match_name |-> match_name(P[i].product_name)]]
        P2 == Merge(P1, C,
                  LAMBDA l, r : l.match_name = r.match_name,
                  LAMBDA l, r : l @@ [competitor_price |-> r.competitor_price],
                  LAMBDA l : l @@ [competitor_price |-> NaN])
        P3 == IF has_competitor
              THEN [i \in 1..Len(P2) |->
                       [product_id |-> P2[i].product_id,
                        product_name |-> P2[i].product_name,
                        subcategory_id |-> P2[i].subcategory_id,
                        unit_price |-> P2[i].unit_price,
                        unit_cost |-> P2[i].unit_cost,
                        competitor_price |-> partial_match(P2[i], comp_dict(C))]]
              ELSE [i \in 1..Len(P) |-> P[i] @@ [competitor_price |-> NaN]]
    IN  [i \in 1..Len(P3) |->
            P3[i] @@ [price_difference |->
                          price_difference(P3[i].unit_price, P3[i].competitor_price),
                      price_difference_pct |->
                          price_difference_pct(P3[i].unit_price, P3[i].competitor_price),
                      avg_sentiment |-> t_sentiment_columns(P3[i].product_id).avg_sentiment,
                      avg_rating |-> t_sentiment_columns(P3[i].product_id).avg_rating,
                      review_count |-> review_count(P3[i].product_id)]]

\* targets.groupby('store_id').agg({'target_revenue': 'sum', 'manager_name': 'first'})
t_store_targets(tg) ==
    LET ids == DropDuplicates(SelectSeq(tg, LAMBDA r : ~IsNa(r.store_id)),
                              LAMBDA r : r.store_id)
    IN  [i \in 1..Len(ids) |->
            LET rs == SelectSeq(tg, LAMBDA r : r.store_id = ids[i].store_id)
            IN  [store_id |-> ids[i].store_id,
                 target_revenue |-> SumSeq([k \in 1..Len(rs) |-> rs[k].target_revenue]),
                 manager_name |-> rs[1].manager_name]]

\* section 5: DIM_PRODUCT
t_dim_product ==
    LET sc == t_drop_duplicates(load_csv_safe("subcategories.csv", subcategories))
        ca == t_drop_duplicates(load_csv_safe("categories.csv", categories))
        a == Merge(t_products, sc,
                  LAMBDA l, r : l.subcategory_id = r.subcategory_id,
                  LAMBDA l, r : l @@ [subcat_name |-> <<r.subcategory_name>>,
                                     category_id |-> r.category_id],
                  LAMBDA l : l @@ [subcat_name |-> NaN, category_id |-> NaN])
    IN  Merge(a, ca,
                  LAMBDA l, r : l.category_id = r.category_id,
                  LAMBDA l, r : l @@ [category_name |-> <<r.category_name>>],
                  LAMBDA l : l @@ [category_name |-> NaN])

\* section 5: DIM_STORE
t_dim_store ==
    LET st == t_drop_duplicates(load_csv_safe("stores.csv", stores))
        ci == t_drop_duplicates(load_csv_safe("cities.csv", cities))
        a == Merge(st, ci,
                  LAMBDA l, r : l.city_id = r.city_id,
                  LAMBDA l, r : l @@ [city_name |-> <<r.city_name>>, region |-> <<r.region>>],
                  LAMBDA l : l @@ [city_name |-> NaN, region |-> NaN])
    IN  Merge(a, t_store_targets(t_drop_duplicates(targets)),
                  LAMBDA l, r : IsDigits(l.store_id)
                                /\ clean_id_column(l.store_id) = r.store_id[1],
                  LAMBDA l, r : l @@ [target_revenue |-> Num(r.target_revenue),
                                     manager_name |-> <<r.manager_name>>],
                  LAMBDA l : l @@ [target_revenue |-> NaN, manager_name |-> NaN])

\* section 5: DIM_CUSTOMER
t_dim_customer ==
    LET cu == t_drop_duplicates(load_csv_safe("customers.csv", customers))
        ci == t_drop_duplicates(load_csv_safe("cities.csv", cities))
    IN  Merge(cu, ci,
                  LAMBDA l, r : l.city_id = r.city_id,
                  LAMBDA l, r : l @@ [city_name |-> <<r.city_name>>, region |-> <<r.region>>],
                  LAMBDA l : l @@ [city_name |-> NaN, region |-> NaN])

\* section 5: DIM_DATE, one row per distinct date of the sales frame (a month
\* stands for the date), NaT dropped, sorted
t_dim_date ==
    LET ms == {t_sales[i].month[1] : i \in {k \in 1..Len(t_sales) : ~IsNa(t_sales[k].month)}}
        sorted == SortedSeq(ms)
    IN  [i \in 1..Len(sorted) |-> [date |-> sorted[i]]]

\* shipping.groupby('region_name')['shipping_cost'].mean(), for one region
shipping_avg(sh, region) ==
    LET rs == SelectSeq(sh, LAMBDA r : r.region_name = region)
    IN  IF rs = <<>> THEN NaN
        ELSE Num(Rat(SumSeq([i \in 1..Len(rs) |-> rs[i].shipping_cost]), Len(rs)))

\* marketing.groupby(['category','month'])['marketing_cost_dzd'].sum(), for
\* one bucket; marketing_cost_dzd = marketing_cost_usd * EXCHANGE_RATE
marketing_monthly(mk, cat, mon) ==
    LET rs == SelectSeq(mk, LAMBDA r : <<r.category>> = cat /\ r.month = mon)
    IN  IF IsNa(cat) \/ IsNa(mon) \/ rs = <<>> THEN NaN
        ELSE Num(SumSeq([i \in 1..Len(rs) |-> rs[i].marketing_cost_usd * EXCHANGE_RATE]))

\* fact_sales.groupby(['category_name','month'])['total_revenue'].sum()
category_month_revenue(F, cat, mon) ==
    IF IsNa(cat) \/ IsNa(mon) THEN NaN
    ELSE Num(SumSeq([i \in 1..Len(F) |->
             IF F[i].category_name = cat /\ F[i].month = mon
             THEN F[i].total_revenue ELSE 0]))

\* (total_revenue / total_revenue_cat_total) * marketing_cost_dzd, .fillna(0).
\* Revenues are non-negative, so a zero bucket total means 0/0 = NaN.
t_proportional_share(rev, cat_total, mkt) ==
    IF IsNa(cat_total) \/ IsNa(mkt) THEN Rat(0, 1)
    ELSE IF cat_total[1] = 0 THEN Rat(0, 1)
    ELSE Rat(rev * mkt[1], cat_total[1])

\* the allocation without the safety cap
t_uncapped(alloc, rev) == alloc

\* min(row['allocated_marketing_dzd'], row['total_revenue'] * max_marketing_pct)
t_capped(alloc, rev) ==
    LET cap == Rat(3 * rev, 10)
    IN  IF RatLess(cap, alloc) THEN cap ELSE alloc

\* a net profit that leaves the shipping cost out
t_net_profit_without_shipping(gross, ship, alloc) ==
    LET x == RatSub(Rat(gross, 1), alloc)
    IN  Round2Rat(x.n, x.d)

\* (gross_profit - shipping_cost_total - allocated_marketing_dzd).round(2)
t_net_profit(gross, ship, alloc) ==
    LET x == RatSub(RatSub(Rat(gross, 1), ship), alloc)
    IN  Round2Rat(x.n, x.d)

\* section 6: the fact table
t_fact_sales ==
    LET st == t_drop_duplicates(load_csv_safe("stores.csv", stores))
        ci == t_drop_duplicates(load_csv_safe("cities.csv", cities))
        sc == t_drop_duplicates(load_csv_safe("subcategories.csv", subcategories))
        ca == t_drop_duplicates(load_csv_safe("categories.csv", categories))
        sh == t_drop_duplicates(shipping)
        mk == t_drop_duplicates(marketing)
        f1 == Merge(t_sales, t_products,
                  LAMBDA l, r : l.product_id = r.product_id,
                  LAMBDA l, r : l @@ [unit_cost |-> r.unit_cost,
                                     subcategory_id |-> r.subcategory_id],
                  LAMBDA l : l @@ [unit_cost |-> NaN, subcategory_id |-> NaN])
        f2 == Merge(f1, st,
                  LAMBDA l, r : l.store_id = r.store_id,
                  LAMBDA l, r : l @@ [city_id |-> r.city_id],
                  LAMBDA l : l @@ [city_id |-> NaN])
        f3 == Merge(f2, ci,
                  LAMBDA l, r : l.city_id = r.city_id,
                  LAMBDA l, r : l @@ [region |-> r.region],
                  LAMBDA l : l @@ [region |-> "nan"])
        f4 == Merge(f3, sc,
                  LAMBDA l, r : l.subcategory_id = r.subcategory_id,
                  LAMBDA l, r : l @@ [category_id |-> r.category_id],
                  LAMBDA l : l @@ [category_id |-> NaN])
        f5 == Merge(f4, ca,
                  LAMBDA l, r : l.category_id = r.category_id,
                  LAMBDA l, r : l @@ [category_name |-> <<r.category_name>>],
                  LAMBDA l : l @@ [category_name |-> NaN])
    IN  TheOne({[i \in 1..Len(F) |->
            LET e == F[i]
                cost == e.quantity * FillNa(e.unit_cost, 0)
                gross == e.total_revenue - cost
                ship == FillNa(shipping_avg(sh, e.region), Rat(0, 1))
                share == t_proportional_share(e.total_revenue,
                             category_month_revenue(F, e.category_name, e.month),
                             marketing_monthly(mk, e.category_name, e.month))
                alloc == t_capped(share, e.total_revenue)
            IN  [trans_id |-> e.trans_id, month |-> e.month, store_id |-> e.store_id,
                 product_id |-> e.product_id, customer_id |-> e.customer_id,
                 quantity |-> e.quantity, total_revenue |-> e.total_revenue,
                 cost |-> cost, gross_profit |-> gross,
                 shipping_cost_total |-> ship,
                 allocated_marketing_dzd |-> alloc,
                 net_profit |-> t_net_profit(gross, ship, alloc)]] : F \in {f5}})

(***************************************************************************)
(* generate_project_audit_report.py: EnhancedDataQualityAuditor.  The      *)
(* auditor reads the extracts and the files of data/transformed; a file    *)
(* that is there holds the table the run wrote.  A section either raises   *)
(* (an uncaught exception) or yields its check lines.                      *)
(***************************************************************************)
check_pass(name) == [kind |-> "check", name |-> name, outcome |-> "pass"]
check_fail(name) == [kind |-> "check", name |-> name, outcome |-> "fail"]
check_warning(name) == [kind |-> "check", name |-> name, outcome |-> "warning"]

Raised == [raised |-> TRUE, lines |-> <<>>]
Checked(lines) == [raised |-> FALSE, lines |-> lines]

OnDisk(f) == disk[f] # "absent"

\* 4 x the k-th quartile of the sorted values v (Series.describe, linear
\* interpolation), v not empty
Quartile4(v, k) ==
    LET pos4 == (Len(v) - 1) * k
        lo == pos4 \div 4
        rem == pos4 % 4
    IN  IF rem = 0 THEN 4 * v[lo + 1]
        ELSE 4 * v[lo + 1] + rem * (v[lo + 2] - v[lo + 1])

\* the revenues above Q3 + 3 x (Q3 - Q1)
outliers_upper(revs) ==
    IF revs = <<>> THEN 0
    ELSE LET v == SortAscending(revs)
             q1 == Quartile4(v, 1)
             q3 == Quartile4(v, 3)
         IN  Count(revs, LAMBDA x : 4 * x > q3 + 3 * (q3 - q1))

\* isnull().sum().sum() of the sales extract
sales_nulls ==
    SumSeq([i \in 1..Len(sales) |->
        Count(<<sales[i].trans_id, sales[i].store_id, sales[i].product_id,
                sales[i].customer_id, sales[i].month>>, IsNa)])

\* analyze_original_data
analyze_original_data ==
    IF "sales.csv" \notin present \/ "products.csv" \notin present
       \/ "reviews.csv" \notin present
    THEN Raised
    \* len(reviews_df) / reviews_df[product_id].nunique(): ZeroDivisionError
    ELSE IF \A i \in 1..Len(reviews) : IsNa(reviews[i].product_id)
    THEN Raised
    ELSE
    LET revs == [i \in 1..Len(sales) |-> sales[i].total_revenue]
    IN  Checked(<<
          IF sales_nulls = 0 THEN check_pass("sales nulls")
          ELSE check_fail("sales nulls"),
          IF Duplicated(sales, LAMBDA r : r.trans_id) = 0
          THEN check_pass("unique transaction ids")
          ELSE check_fail("unique transaction ids"),
          IF Count(revs, LAMBDA x : x <= 0) = 0 THEN check_pass("positive revenue")
          ELSE check_fail("positive revenue"),
          IF 100 * outliers_upper(revs) < 5 * Len(sales)
          THEN check_pass("revenue outliers")
          ELSE check_warning("revenue outliers"),
          IF Count(products, LAMBDA r : IsNa(r.unit_cost)) = 0
          THEN check_pass("unit cost defined")
          ELSE check_fail("unit cost defined"),
          IF Count(products, LAMBDA r : ~IsNa(r.unit_cost) /\ ~IsNa(r.unit_price)
                                        /\ r.unit_cost[1] > r.unit_price[1]) = 0
          THEN check_pass("price above cost")
          ELSE check_fail("price above cost"),
          IF Count(reviews, LAMBDA r : IsNa(r.review_text)) = 0
          THEN check_pass("review text")
          ELSE check_warning("review text")>>)

\* revenue - cost - shipping_cost_total - allocated_marketing_dzd of a row of
\* Fact_Sales.csv
verified_net_profit(r) ==
    RatSub(RatSub(Rat(r.total_revenue - r.cost, 1), r.shipping_cost_total),
           r.allocated_marketing_dzd)

\* abs(a - b) > 0.01, a and b in mills
RatFar(a, b) ==
    LET x == RatSub(a, b) IN Abs(x.n) > 10 * x.d

RECURSIVE RatSum(_)
RatSum(s) == IF s = <<>> THEN Rat(0, 1) ELSE RatAdd(Head(s), RatSum(Tail(s)))

revenue_check_inclusive(orig_total, trans_total) ==
    LET diff == Abs(orig_total - trans_total)
    IN  IF orig_total < 0 \/ (orig_total > 0 /\ 10000 * diff <= orig_total)
        THEN check_pass("revenue preserved")
        ELSE IF orig_total > 0 /\ 100 * diff <= orig_total
        THEN check_warning("revenue preserved")
        ELSE check_fail("revenue preserved")

\* the revenue integrity check: revenue_diff_pct = abs(orig - trans) / orig
\* * 100 is below 0.01, below 1, or neither; a zero original total gives nan
\* or inf, which is below nothing, and a negative one a percentage below 0
revenue_check(orig_total, trans_total) ==
    LET diff == Abs(orig_total - trans_total)
    IN  IF orig_total < 0 \/ (orig_total > 0 /\ 10000 * diff < orig_total)
        THEN check_pass("revenue preserved")
        ELSE IF orig_total > 0 /\ 100 * diff < orig_total
        THEN check_warning("revenue preserved")
        ELSE check_fail("revenue preserved")

\* analyze_transformation_quality
analyze_transformation_quality ==
    IF "sales.csv" \notin present \/ ~OnDisk("Fact_Sales.csv") THEN Raised
    \* sales_orig['Total_Revenue'], products_df[['Product_ID', 'Unit_Cost']]
    ELSE IF <<"sales.csv", "Total_Revenue">> \in lacks
            \/ "products.csv" \notin present
            \/ <<"products.csv", "Unit_Cost">> \in lacks
    THEN Raised
    ELSE
    LET F == Fact_Sales
        n == Len(F)
        orig_total == SumSeq([i \in 1..Len(sales) |-> sales[i].total_revenue])
        trans_total == SumSeq([i \in 1..n |-> F[i].total_revenue])
        fact_with_products ==
            Merge(F, products,
                  LAMBDA l, r : l.product_id = r.product_id,
                  LAMBDA l, r : l @@ [Unit_Cost |-> r.unit_cost],
                  LAMBDA l : l @@ [Unit_Cost |-> NaN])
        cost_errors ==
            Count(fact_with_products,
                  LAMBDA r : ~IsNa(r.Unit_Cost)
                             /\ Abs(r.cost - r.quantity * r.Unit_Cost[1]) > 10)
        gross_profit_errors ==
            Count(F, LAMBDA r : Abs(r.gross_profit - (r.total_revenue - r.cost)) > 10)
        net_profit_errors ==
            Count(F, LAMBDA r : RatFar(Rat(r.net_profit, 1), verified_net_profit(r)))
        negative == Count(F, LAMBDA r : r.net_profit < 0)
        excessive_marketing ==
            Count(F, LAMBDA r : RatLess(Rat(3 * r.total_revenue, 10),
                                        r.allocated_marketing_dzd))
        marketing_total == RatSum([i \in 1..n |-> F[i].allocated_marketing_dzd])
    IN  Checked(<<
          IF n >= Len(sales) THEN check_pass("record count")
          ELSE check_fail("record count"),
          revenue_check(orig_total, trans_total),
          IF cost_errors = 0 THEN check_pass("cost") ELSE check_fail("cost"),
          IF gross_profit_errors = 0 THEN check_pass("gross profit")
          ELSE check_fail("gross profit"),
          IF net_profit_errors = 0 THEN check_pass("net profit")
          ELSE check_fail("net profit"),
          IF n > 0 /\ 100 * negative < 10 * n THEN check_pass("negative profit")
          ELSE IF n > 0 /\ 100 * negative < 20 * n THEN check_warning("negative profit")
          ELSE check_fail("negative profit"),
          IF excessive_marketing = 0 THEN check_pass("marketing cap")
          ELSE check_fail("marketing cap"),
          IF trans_total > 0
             /\ 5 * trans_total * marketing_total.d <= 100 * marketing_total.n
             /\ 100 * marketing_total.n <= 20 * trans_total * marketing_total.d
          THEN check_pass("marketing ratio")
          ELSE check_warning("marketing ratio")>>)

\* analyze_dimension_tables
analyze_dimension_tables ==
    IF ~OnDisk("Dim_Product.csv") \/ ~OnDisk("Dim_Date.csv") THEN Raised
    ELSE
    LET n == Len(Dim_Product)
        with_sentiment == Count(Dim_Product, LAMBDA r : ~IsNa(r.review_count))
        with_competitor == Count(Dim_Product, LAMBDA r : ~IsNa(r.competitor_price))
    IN  Checked(<<
          IF n > 0 /\ 100 * with_sentiment >= 90 * n THEN check_pass("sentiment coverage")
          ELSE IF n > 0 /\ 100 * with_sentiment >= 70 * n
          THEN check_warning("sentiment coverage")
          ELSE check_fail("sentiment coverage"),
          IF n > 0 /\ 100 * with_competitor >= 80 * n
          THEN check_pass("competitor coverage")
          ELSE IF n > 0 /\ 100 * with_competitor >= 30 * n
          THEN check_warning("competitor coverage")
          ELSE check_fail("competitor coverage"),
          IF Duplicated(Dim_Date, LAMBDA r : r.date) = 0 THEN check_pass("unique dates")
          ELSE check_fail("unique dates")>>)

DbTables == <<"Dim_Customer", "Dim_Date", "Dim_Product", "Dim_Store", "Fact_Sales">>

\* the table a file of data/transformed holds
TableOf(t) ==
    CASE t = "Dim_Customer" -> Dim_Customer
      [] t = "Dim_Date" -> Dim_Date
      [] t = "Dim_Product" -> Dim_Product
      [] t = "Dim_Store" -> Dim_Store
      [] t = "Fact_Sales" -> Fact_Sales

csv_rows(t) ==
    LET f == CASE t = "Dim_Customer" -> "Dim_Customer.csv"
               [] t = "Dim_Date" -> "Dim_Date.csv"
               [] t = "Dim_Product" -> "Dim_Product.csv"
               [] t = "Dim_Store" -> "Dim_Store.csv"
               [] t = "Fact_Sales" -> "Fact_Sales.csv"
    IN  IF OnDisk(f) THEN Len(TableOf(t)) ELSE 0

\* SELECT COUNT(*), 0 when the query fails
db_rows(t) == IF t \in DOMAIN db.rows THEN db.rows[t] ELSE 0

\* analyze_database_integrity
analyze_database_integrity ==
    IF ~db.exists THEN Checked(<<check_fail("database file")>>)
    ELSE Checked([i \in 1..Len(DbTables) |->
             IF csv_rows(DbTables[i]) = db_rows(DbTables[i])
             THEN check_pass(DbTables[i]) ELSE check_fail(DbTables[i])])

\* generate_report: the four analyses in order; an exception in one of them
\* leaves generate_report without a result
generate_report ==
    LET a == analyze_original_data
        b == analyze_transformation_quality
        c == analyze_dimension_tables
        d == analyze_database_integrity
    IN  IF a.raised \/ b.raised \/ c.raised \/ d.raised THEN Raised
        ELSE Checked(a.lines \o b.lines \o c.lines \o d.lines)

\* the check lines of the sections that end before one raises
lines_before_raise ==
    LET a == analyze_original_data
        b == analyze_transformation_quality
        c == analyze_dimension_tables
    IN  IF a.raised THEN <<>>
        ELSE IF b.raised THEN a.lines
        ELSE IF c.raised THEN a.lines \o b.lines
        ELSE a.lines \o b.lines \o c.lines

\* __init__: no line, no score, no check
NewAuditor == [report_lines |-> <<>>, quality_score2 |-> 0, total_checks |-> 0]

\* add_line(content)
add_line(a, content) == [a EXCEPT !.report_lines = Append(@, content)]

points_with_full_warning(outcome) ==
    CASE outcome = "pass" -> 2 [] outcome = "warning" -> 2 [] OTHER -> 0

\* twice what a check adds to quality_score: 1 for a pass, 0.5 for a
\* warning, nothing for a fail
points(outcome) ==
    CASE outcome = "pass" -> 2 [] outcome = "warning" -> 1 [] OTHER -> 0

\* the object after check_pass, check_fail or check_warning has recorded
\* the line
checked(a, line) ==
    add_line([a EXCEPT !.quality_score2 = @ + points(line.outcome),
                       !.total_checks = @ + 1], line)

\* the object after the checks of a section, in order
RECURSIVE run_checks(_, _)
run_checks(a, lines) ==
    IF lines = <<>> THEN a ELSE run_checks(checked(a, Head(lines)), Tail(lines))

\* score_pct of generate_report, as a fraction: quality_score /
\* total_checks * 100, 0 without a check
score_pct(a) ==
    IF a.total_checks > 0 THEN Rat(100 * a.quality_score2, 2 * a.total_checks)
    ELSE Rat(0, 1)

\* save_report: generate_report, then the file is written
Audit_save_report ==
    /\ audit_pc = "start"
    /\ LET g == generate_report
       IN  IF g.raised
           THEN /\ report' = report
                /\ auditor' = run_checks(auditor, lines_before_raise)
                /\ audit_pc' = "raised"
           ELSE /\ auditor' = run_checks(auditor, g.lines)
                /\ report' =
                     [written |-> TRUE, lines |-> auditor'.report_lines,
                      quality_score2 |-> auditor'.quality_score2,
                      total_checks |-> auditor'.total_checks]
                /\ audit_pc' = "done"
    /\ UNCHANGED <<inputs, td_tables, t_tables, td_pc, t_pc, disk>>

\* the messages of the checks of the model
CheckMessages == {"sales nulls", "revenue preserved"}

\* the number of checks after which the model stops calling
MaxChecks == 4

\* check_pass(message)
Audit_check_pass ==
    /\ audit_pc = "checking"
    /\ auditor.total_checks < MaxChecks
    /\ \E message \in CheckMessages : auditor' = checked(auditor, check_pass(message))
    /\ UNCHANGED <<inputs, td_tables, t_tables, td_pc, t_pc, disk, report, audit_pc>>

\* check_fail(message)
Audit_check_fail ==
    /\ audit_pc = "checking"
    /\ auditor.total_checks < MaxChecks
    /\ \E message \in CheckMessages : auditor' = checked(auditor, check_fail(message))
    /\ UNCHANGED <<inputs, td_tables, t_tables, td_pc, t_pc, disk, report, audit_pc>>

\* check_warning(message)
Audit_check_warning ==
    /\ audit_pc = "checking"
    /\ auditor.total_checks < MaxChecks
    /\ \E message \in CheckMessages : auditor' = checked(auditor, check_warning(message))
    /\ UNCHANGED <<inputs, td_tables, t_tables, td_pc, t_pc, disk, report, audit_pc>>

(***************************************************************************)
(* create_database.py.  The database file is a record: whether it exists    *)
(* and the committed number of rows of each of its tables.                  *)
(***************************************************************************)
\* the order of the to_sql calls
LoadOrder == <<"Dim_Date", "Dim_Product", "Dim_Store", "Dim_Customer", "Fact_Sales">>

\* the rows of a frame whose primary key column is not null
keyed(T) == SelectSeq(T, LAMBDA r : ~IsNa(r.key))

\* the primary key of each row of the frame that is loaded into a table;
\* Dim_Date.csv has no date_id column, its key is the rowid
primary_keys(t) ==
    CASE t = "Dim_Product" -> [i \in 1..Len(Dim_Product) |-> [key |-> Dim_Product[i].product_id]]
      [] t = "Dim_Store" -> [i \in 1..Len(Dim_Store) |-> [key |-> Dim_Store[i].store_id]]
      [] t = "Dim_Customer" ->
             [i \in 1..Len(Dim_Customer) |-> [key |-> Dim_Customer[i].customer_id]]
      [] t = "Fact_Sales" -> [i \in 1..Len(Fact_Sales) |-> [key |-> Fact_Sales[i].trans_id]]
      [] OTHER -> <<>>

\* DataFrame.to_sql(t, conn, if_exists='append'): sqlite3.IntegrityError on a
\* repeated PRIMARY KEY, or on a null in a NOT NULL column of Fact_Sales; the
\* inserts of this call are rolled back, the script ends
to_sql_raises(t) ==
    \/ Len(keyed(primary_keys(t))) # Len(DropDuplicates(keyed(primary_keys(t)),
                                                        LAMBDA r : r.key))
    \/ /\ t = "Fact_Sales"
       /\ \E i \in 1..Len(Fact_Sales) :
              IsNa(Fact_Sales[i].product_id) \/ IsNa(Fact_Sales[i].store_id)
              \/ IsNa(Fact_Sales[i].customer_id)

\* the database a complete load of the tables of data/transformed gives
loaded_db ==
    [exists |-> TRUE,
     rows |-> [t \in {LoadOrder[i] : i \in 1..Len(LoadOrder)} |-> Len(TableOf(t))]]

(***************************************************************************)
(* transform_data.create_dim_date.  A timestamp is its day number, days     *)
(* since 1970-01-01; the dt accessors read the civil date off it.          *)
(***************************************************************************)
START_DATE == <<2023, 1, 1>>
END_DATE == <<2024, 12, 31>>

\* the day number of a civil date (proleptic Gregorian calendar)
days_from_civil(ymd) ==
    LET y == IF ymd[2] <= 2 THEN ymd[1] - 1 ELSE ymd[1]
        era == y \div 400
        yoe == y - era * 400
        mp == IF ymd[2] > 2 THEN ymd[2] - 3 ELSE ymd[2] + 9
        doy == (153 * mp + 2) \div 5 + ymd[3] - 1
        doe == yoe * 365 + yoe \div 4 - yoe \div 100 + doy
    IN  era * 146097 + doe - 719468

\* the civil date <<year, month, day>> of a day number
civil_from_days(z) ==
    LET s == z + 719468
        era == s \div 146097
        doe == s - era * 146097
        yoe == (doe - doe \div 1460 + doe \div 36524 - doe \div 146096) \div 365
        doy == doe - (365 * yoe + yoe \div 4 - yoe \div 100)
        mp == (5 * doy + 2) \div 153
        d == doy - (153 * mp + 2) \div 5 + 1
        m == IF mp < 10 THEN mp + 3 ELSE mp - 9
        y == yoe + era * 400
    IN  <<IF m <= 2 THEN y + 1 ELSE y, m, d>>

\* pd.date_range(start, end, freq='D'): every day from start to end, both
\* included, in order
date_range(start, end) ==
    LET first == days_from_civil(start)
        n == days_from_civil(end) - first + 1
    IN  [i \in 1..(IF n > 0 THEN n ELSE 0) |-> first + i - 1]

\* dt.dayofweek: Monday is 0, Sunday is 6 (1970-01-01 was a Thursday)
dayofweek(z) == (z + 3) % 7

\* an integer as decimal digits, zero-padded to a width (%m, %d, %Y)
ZeroPadded(n, width) ==
    LET ds == IntToDigits(n)
    IN  [i \in 1..(width - Len(ds)) |-> "0"] \o ds

\* dt.strftime('%Y%m%d') and dt.strftime('%Y-%m-%d')
strftime_Ymd(z, sep) ==
    LET c == civil_from_days(z)
    IN  ZeroPadded(c[1], 4) \o sep \o ZeroPadded(c[2], 2) \o sep \o ZeroPadded(c[3], 2)

\* dt.strftime('%B'), dt.strftime('%A')
month_name(z) ==
    <<"January", "February", "March", "April", "May", "June", "July", "August",
      "September", "October", "November", "December">>[civil_from_days(z)[2]]

day_name(z) ==
    <<"Monday", "Tuesday", "Wednesday", "Thursday", "Friday", "Saturday",
      "Sunday">>[dayofweek(z) + 1]

\* dt.quarter
quarter(z) == (civil_from_days(z)[2] - 1) \div 3 + 1

\* dt.isocalendar().week: the week of the Thursday of the day's week, counted
\* in the year of that Thursday
isocalendar_week(z) ==
    LET thursday == z - dayofweek(z) + 3
        y == civil_from_days(thursday)[1]
    IN  (thursday - days_from_civil(<<y, 1, 1>>)) \div 7 + 1

clip(v, lo, hi) == IF v < lo THEN lo ELSE IF v > hi THEN hi ELSE v

day_of_week_from_zero(z) == dayofweek(z)

\* dt.dayofweek + 1
day_of_week(z) == dayofweek(z) + 1

\* the calendar table
create_dim_date ==
    LET days == date_range(START_DATE, END_DATE)
    IN  [none |-> FALSE,
         rows |-> [i \in 1..Len(days) |->
                      [date_id |-> DigitsToInt(strftime_Ymd(days[i], <<>>), 0),
                       date |-> strftime_Ymd(days[i], <<"-">>),
                       year |-> civil_from_days(days[i])[1],
                       quarter |-> quarter(days[i]),
                       month |-> civil_from_days(days[i])[2],
                       month_name |-> month_name(days[i]),
                       day |-> civil_from_days(days[i])[3],
                       day_of_week |-> day_of_week(days[i]),
                       day_name |-> day_name(days[i]),
                       week_of_year |-> clip(isocalendar_week(days[i]), 1, 53)]]]

(***************************************************************************)
(* The runs.  transform_data.main: steps 5 (the three dimensions), 6 (the   *)
(* fact table) and the save; transform.py: sections 5, 6 and 7.            *)
(***************************************************************************)
TD_create_dim_product ==
    /\ td_pc = "dim_product"
    /\ dim_product' = create_dim_product
    /\ td_pc' = "dim_store"
    /\ UNCHANGED <<inputs, dim_store, dim_customer, fact_sales, marketing_roi, dim_date,
                   t_tables, t_pc, published>>

TD_create_dim_store ==
    /\ td_pc = "dim_store"
    /\ dim_store' = create_dim_store
    /\ td_pc' = "dim_customer"
    /\ UNCHANGED <<inputs, dim_product, dim_customer, fact_sales, marketing_roi, dim_date,
                   t_tables, t_pc, published>>

TD_create_dim_customer ==
    /\ td_pc = "dim_customer"
    /\ dim_customer' = create_dim_customer
    /\ td_pc' = "fact"
    /\ UNCHANGED <<inputs, dim_product, dim_store, fact_sales, marketing_roi, dim_date,
                   t_tables, t_pc, published>>

\* step 6, on the flat files as steps 2 and 3 left them: a None fact table
\* ends main
TD_calculate_net_profit ==
    /\ td_pc = "fact"
    /\ fact_sales' = calculate_net_profit(
                         harmonize_currency(clean_dataframes(marketing)),
                         clean_dataframes(shipping))
    /\ td_pc' = IF fact_sales'.none THEN "returned" ELSE "dim_date"
    /\ UNCHANGED <<inputs, dim_product, dim_store, dim_customer, marketing_roi, dim_date,
                   t_tables, t_pc, published>>

\* step 7
TD_create_dim_date ==
    /\ td_pc = "dim_date"
    /\ dim_date' = create_dim_date
    /\ td_pc' = "roi"
    /\ UNCHANGED <<inputs, dim_product, dim_store, dim_customer, fact_sales,
                   marketing_roi, t_tables, t_pc, published>>

\* step 8
TD_calculate_marketing_roi ==
    /\ td_pc = "roi"
    /\ marketing_roi' = calculate_marketing_roi(fact_sales.rows)
    /\ td_pc' = "save"
    /\ UNCHANGED <<inputs, dim_product, dim_store, dim_customer, fact_sales, dim_date,
                   t_tables, t_pc, published>>

TDFiles ==
    <<"dim_product.csv", "dim_store.csv", "dim_customer.csv", "dim_date.csv",
      "fact_sales.csv", "marketing_roi.csv">>

\* df is not None and not df.empty, for the table save_all_tables pairs with
\* the file
td_saveable(f) ==
    LET df == CASE f = "dim_product.csv" -> dim_product
                [] f = "dim_store.csv" -> dim_store
                [] f = "dim_customer.csv" -> dim_customer
                [] f = "fact_sales.csv" -> fact_sales
                [] f = "marketing_roi.csv" -> marketing_roi
                [] f = "dim_date.csv" -> dim_date
                [] OTHER -> NoneDF
    IN  ~df.none /\ df.rows # <<>>

\* save_all_tables: each table that is neither None nor empty is written; a
\* failing write is reported and the loop goes on
save_all_tables ==
    [f \in DOMAIN disk |->
        IF (\E i \in 1..Len(TDFiles) : TDFiles[i] = f)
           /\ td_saveable(f) /\ f \notin write_fails
        THEN "current" ELSE disk[f]]

TD_save_all_tables ==
    /\ td_pc = "save"
    /\ disk' = save_all_tables
    /\ td_pc' = "done"
    /\ UNCHANGED <<inputs, td_tables, t_tables, t_pc, report, audit_pc, auditor>>

T_dimensions ==
    /\ t_pc = "dims"
    /\ IF legacy_raises
       THEN /\ t_pc' = "raised"
            /\ UNCHANGED <<Dim_Product, Dim_Store, Dim_Customer, Dim_Date>>
       ELSE /\ Dim_Product' = t_dim_product
            /\ Dim_Store' = t_dim_store
            /\ Dim_Customer' = t_dim_customer
            /\ Dim_Date' = t_dim_date
            /\ t_pc' = "fact"
    /\ UNCHANGED <<inputs, td_tables, Fact_Sales, td_pc, published>>

T_fact_sales ==
    /\ t_pc = "fact"
    /\ Fact_Sales' = t_fact_sales
    /\ t_pc' = "save"
    /\ UNCHANGED <<inputs, td_tables, Dim_Product, Dim_Store, Dim_Customer, Dim_Date,
                   td_pc, published>>

TFiles ==
    <<"Dim_Product.csv", "Dim_Store.csv", "Dim_Customer.csv", "Dim_Date.csv",
      "Fact_Sales.csv">>

\* section 7: five to_csv calls in a row; the first one that raises ends the
\* script, the files before it are written
t_save ==
    LET failing == {i \in 1..Len(TFiles) : TFiles[i] \in write_fails}
        written == {TFiles[i] : i \in {k \in 1..Len(TFiles) : \A j \in failing : k < j}}
    IN  [f \in DOMAIN disk |-> IF f \in written THEN "current" ELSE disk[f]]

T_save ==
    /\ t_pc = "save"
    /\ disk' = t_save
    /\ t_pc' = IF \E i \in 1..Len(TFiles) : TFiles[i] \in write_fails
               THEN "failed" ELSE "done"
    /\ UNCHANGED <<inputs, td_tables, t_tables, td_pc, report, audit_pc, auditor>>

\* [1/4] and [2/4]: the five files are read, exit(1) on a missing one; the
\* Date_ID of the fact rows is computed, which raises on a row without date
DB_load_files ==
    /\ create_db_pc = "start"
    /\ create_db_pc' =
          IF \E i \in 1..Len(TFiles) : ~OnDisk(TFiles[i]) THEN "exited"
          ELSE IF \E i \in 1..Len(Fact_Sales) : IsNa(Fact_Sales[i].month) THEN "raised"
          ELSE "loaded"
    /\ UNCHANGED <<extracts, db, td_tables, t_tables, td_pc, t_pc, published>>

\* [3/4]: db_path.unlink() when the database exists
DB_delete_old ==
    /\ create_db_pc = "loaded"
    /\ db' = [exists |-> FALSE, rows |-> <<>>]
    /\ create_db_pc' = "deleted"
    /\ UNCHANGED <<extracts, td_tables, t_tables, td_pc, t_pc, published>>

\* sqlite3.connect, the five CREATE TABLE statements and conn.commit()
DB_create_tables ==
    /\ create_db_pc = "deleted"
    /\ db' = [exists |-> TRUE,
              rows |-> [t \in {LoadOrder[i] : i \in 1..Len(LoadOrder)} |-> 0]]
    /\ create_db_pc' = LoadOrder[1]
    /\ UNCHANGED <<extracts, td_tables, t_tables, td_pc, t_pc, published>>

\* [4/4]: one to_sql call, which commits its rows or raises
DB_to_sql ==
    /\ \E k \in 1..Len(LoadOrder) :
          /\ create_db_pc = LoadOrder[k]
          /\ IF to_sql_raises(LoadOrder[k])
             THEN /\ create_db_pc' = "raised"
                  /\ db' = db
             ELSE /\ create_db_pc' = IF k < Len(LoadOrder) THEN LoadOrder[k + 1]
                                     ELSE "verify"
                  /\ db' = [db EXCEPT !.rows[LoadOrder[k]] = Len(TableOf(LoadOrder[k]))]
    /\ UNCHANGED <<extracts, td_tables, t_tables, td_pc, t_pc, published>>

\* the verification queries and conn.close()
DB_verify ==
    /\ create_db_pc = "verify"
    /\ create_db_pc' = "done"
    /\ UNCHANGED <<extracts, db, td_tables, t_tables, td_pc, t_pc, published>>

(***************************************************************************)
(* Input families.                                                         *)
(***************************************************************************)
MaxSales == 2

TableFiles ==
    {TDFiles[i] : i \in 1..Len(TDFiles)} \cup {TFiles[i] : i \in 1..Len(TFiles)}

\* EnhancedDataQualityAuditor.__init__: no report line, no check counted
NoReport == [written |-> FALSE, lines |-> <<>>, quality_score2 |-> 0, total_checks |-> 0]

\* an empty data/transformed, no database, every write succeeding, and the
\* auditor not run
NothingPublished ==
    /\ write_fails = {}
    /\ lacks = {}
    /\ db = [exists |-> FALSE, rows |-> <<>>]
    /\ create_db_pc = "idle"
    /\ disk = [f \in TableFiles |-> "absent"]
    /\ report = NoReport
    /\ auditor = NewAuditor
    /\ audit_pc = "idle"

\* the <<query, choice>> pairs extractOne scores: lower-cased product name,
\* lower-cased competitor name
NamePairs ==
    {<<LowerName(products[i].product_name),
       LowerName(competitor.rows[j].competitor_product_name)>> :
         i \in 1..Len(products), j \in 1..Len(competitor.rows)}

\* the scores of the families that are not about matching: 100 for equal
\* strings, 0 otherwise
ExactScores == [p \in NamePairs |-> IF p[1] = p[2] THEN 100 ELSE 0]

SeqsUpTo(S, n) == UNION {[1..k -> S] : k \in 0..n}

AllFiles ==
    {"sales.csv", "products.csv", "customers.csv", "stores.csv", "cities.csv",
     "subcategories.csv", "categories.csv"}

\* amounts in mills: 0.100, 1.005 and 2.600 DZD
RevenueValues == {0, 100, 1005, 2600}
UnitCostValues == {NaN, <<330>>}
\* the marketing records of the month, in USD mills: none, one, or two campaigns
MarketingLists == {<<>>, <<2>>, <<8>>, <<2, 8>>}

\* the two fact builders on a catalog of one product: what varies is the
\* revenue, the quantity and the product of each sale, the unit cost and the
\* marketing records of the month
InitProfit ==
    /\ present = AllFiles
    /\ \E ch \in SeqsUpTo([product_id : {<<"1">>, <<"9">>}, quantity : {1, 3},
                           total_revenue : RevenueValues], MaxSales) :
          sales = [i \in 1..Len(ch) |->
                      [trans_id |-> IntToDigits(i), month |-> <<1>>,
                       store_id |-> <<"1">>, product_id |-> ch[i].product_id,
                       customer_id |-> <<"1">>, quantity |-> ch[i].quantity,
                       total_revenue |-> ch[i].total_revenue]]
    /\ \E uc \in UnitCostValues :
          products = <<[product_id |-> <<"1">>, product_name |-> <<"a", "b", "c">>,
                        subcategory_id |-> <<"1">>, unit_price |-> <<500>>,
                        unit_cost |-> uc]>>
    /\ customers = <<[customer_id |-> <<"1">>, full_name |-> "ali", city_id |-> <<"1">>]>>
    /\ stores = <<[store_id |-> <<"1">>, store_name |-> "s1", city_id |-> <<"1">>]>>
    /\ cities = <<[city_id |-> <<"1">>, city_name |-> "oran", region |-> "west"]>>
    /\ subcategories = <<[subcategory_id |-> <<"1">>, subcategory_name |-> "phones",
                          category_id |-> <<"1">>]>>
    /\ categories = <<[category_id |-> <<"1">>, category_name |-> "electronics"]>>
    /\ competitor = [size |-> 0, rows |-> <<>>]
    /\ legacy = <<>>
    /\ \E mu \in MarketingLists :
          marketing = [i \in 1..Len(mu) |->
                          [category |-> "electronics", month |-> <<1>>,
                           marketing_cost_usd |-> mu[i]]]
    /\ targets = <<>>
    /\ shipping = <<[region_name |-> "west", shipping_cost |-> 120],
                    [region_name |-> "west", shipping_cost |-> 125]>>
    /\ dim_product = create_dim_product
    /\ dim_store = create_dim_store
    /\ dim_customer = create_dim_customer
    /\ fact_sales = NoneDF
    /\ marketing_roi = NoneDF
    /\ dim_date = NoneDF
    /\ Dim_Product = t_dim_product
    /\ Dim_Store = t_dim_store
    /\ Dim_Customer = t_dim_customer
    /\ Dim_Date = t_dim_date
    /\ Fact_Sales = <<>>
    /\ reviews = <<>>
    /\ similarity = ExactScores
    /\ NothingPublished
    /\ td_pc = "fact"
    /\ t_pc = "fact"

NextProfit == TD_calculate_net_profit \/ T_fact_sales

SpecProfit == InitProfit /\ [][NextProfit]_vars

MaxProducts == 2

\* extracts whose rows may repeat a key with different values
CityLists ==
    {<<[city_id |-> <<"1">>, city_name |-> "oran", region |-> "west"]>>,
     <<[city_id |-> <<"1">>, city_name |-> "oran", region |-> "west"],
       [city_id |-> <<"1">>, city_name |-> "wahran", region |-> "west"]>>,
     <<[city_id |-> <<"1">>, city_name |-> "oran", region |-> "west"],
       [city_id |-> <<"1">>, city_name |-> "oran", region |-> "west"]>>,
     <<[city_id |-> <<"1">>, city_name |-> "oran", region |-> "west"],
       [city_id |-> <<"2">>, city_name |-> "alger", region |-> "north"]>>}

CustomerLists ==
    {<<>>,
     <<[customer_id |-> <<"1">>, full_name |-> "ali", city_id |-> <<"1">>]>>,
     <<[customer_id |-> <<"1">>, full_name |-> "ali", city_id |-> <<"1">>],
       [customer_id |-> <<"2">>, full_name |-> "sam", city_id |-> <<"2">>]>>,
     <<[customer_id |-> <<"1">>, full_name |-> "ali", city_id |-> <<"1">>],
       [customer_id |-> <<"1">>, full_name |-> "sam", city_id |-> <<"1">>]>>,
     <<[customer_id |-> <<"1">>, full_name |-> "ali", city_id |-> <<"1">>],
       [customer_id |-> <<"2">>, full_name |-> "ali", city_id |-> <<"1">>]>>}

StoreLists ==
    {<<[store_id |-> <<"1">>, store_name |-> "s1", city_id |-> <<"1">>]>>,
     <<[store_id |-> <<"1">>, store_name |-> "s1", city_id |-> <<"1">>],
       [store_id |-> <<"1">>, store_name |-> "s1b", city_id |-> <<"2">>]>>}

\* monthly target records: two for store 1 (mean 1.500), two whose mean
\* 1.5025 is not a number of cents, one for a store that is not in stores.csv
TargetLists ==
    {<<[store_id |-> <<1>>, target_revenue |-> 1000, manager_name |-> "m1"],
       [store_id |-> <<1>>, target_revenue |-> 2000, manager_name |-> "m2"]>>,
     <<[store_id |-> <<1>>, target_revenue |-> 1005, manager_name |-> "m1"],
       [store_id |-> <<1>>, target_revenue |-> 2000, manager_name |-> "m2"]>>,
     <<[store_id |-> <<2>>, target_revenue |-> 500, manager_name |-> "m3"]>>}

CompetitorLists ==
    {<<>>,
     <<[competitor_product_name |-> <<"a", "b", "c">>, competitor_price |-> <<900>>]>>,
     <<[competitor_product_name |-> <<"a", "b", "c">>, competitor_price |-> <<900>>],
       [competitor_product_name |-> <<"A", "b", "c">>, competitor_price |-> <<950>>]>>}

\* the dimension builders of both entry points: what varies is the product
\* rows (ids with and without a prefix, names in two casings) and the rows of
\* the cities, customers, stores and competitor extracts
InitDim ==
    /\ present = AllFiles \cup {"competitor_prices.csv"}
    /\ sales = <<>>
    /\ \E ch \in SeqsUpTo([product_id : {<<"1">>, <<"P", "1">>},
                           product_name : {<<"a", "b", "c">>, <<"A", "b", "c">>}],
                          MaxProducts) :
          products = [i \in 1..Len(ch) |->
                         [product_id |-> ch[i].product_id,
                          product_name |-> ch[i].product_name,
                          subcategory_id |-> <<"1">>, unit_price |-> <<500>>,
                          unit_cost |-> <<330>>]]
    /\ customers \in CustomerLists
    /\ stores \in StoreLists
    /\ cities \in CityLists
    /\ subcategories = <<[subcategory_id |-> <<"1">>, subcategory_name |-> "phones",
                          category_id |-> <<"1">>]>>
    /\ categories = <<[category_id |-> <<"1">>, category_name |-> "electronics"]>>
    /\ \E rows \in CompetitorLists : competitor = [size |-> 200, rows |-> rows]
    /\ legacy = <<>>
    /\ marketing = <<>>
    /\ targets \in TargetLists
    /\ shipping = <<>>
    /\ dim_product = NoneDF
    /\ dim_store = NoneDF
    /\ dim_customer = NoneDF
    /\ fact_sales = NoneDF
    /\ marketing_roi = NoneDF
    /\ dim_date = NoneDF
    /\ Dim_Product = <<>>
    /\ Dim_Store = <<>>
    /\ Dim_Customer = <<>>
    /\ Dim_Date = <<>>
    /\ Fact_Sales = <<>>
    /\ reviews = <<>>
    /\ similarity = ExactScores
    /\ NothingPublished
    /\ td_pc = "dim_product"
    /\ t_pc = "dims"

NextDim ==
    \/ TD_create_dim_product
    \/ TD_create_dim_store
    \/ TD_create_dim_customer
    \/ T_dimensions

SpecDim == InitDim /\ [][NextDim]_vars

\* raw transaction ids: plain, prefixed, and one in the range of the legacy ids
TransIds == {<<"1">>, <<"2">>, <<"A", "1">>, IntToDigits(LEGACY_FIRST_ID)}

ProductLists ==
    {<<[product_id |-> <<"1">>, product_name |-> <<"a", "b", "c">>,
        subcategory_id |-> <<"1">>, unit_price |-> <<500>>, unit_cost |-> <<330>>]>>,
     <<[product_id |-> <<"1">>, product_name |-> <<"a", "b", "c">>,
        subcategory_id |-> <<"1">>, unit_price |-> <<500>>, unit_cost |-> <<330>>],
       [product_id |-> <<"1">>, product_name |-> <<"a", "b", "c">>,
        subcategory_id |-> <<"1">>, unit_price |-> <<500>>, unit_cost |-> <<400>>]>>}

LegacyLists ==
    {<<>>,
     <<[month |-> <<1>>, customer_id |-> <<"1">>, quantity |-> <<1>>,
        total_revenue |-> <<500>>]>>}

\* the two fact builders on sales whose transaction ids and references vary:
\* ids that differ only by a prefix, an id in the legacy range, products
\* outside the catalog, and extracts that repeat a key
InitRows ==
    /\ present = AllFiles \cup {"legacy_sales_2022.csv"}
    /\ \E ch \in SeqsUpTo([trans_id : TransIds, product_id : {<<"1">>, <<"9">>}],
                          MaxSales) :
          sales = [i \in 1..Len(ch) |->
                      [trans_id |-> ch[i].trans_id, month |-> <<1>>,
                       store_id |-> <<"1">>, product_id |-> ch[i].product_id,
                       customer_id |-> <<"1">>, quantity |-> 1,
                       total_revenue |-> 1000 * i]]
    /\ products \in ProductLists
    /\ customers \in {<<>>, <<[customer_id |-> <<"1">>, full_name |-> "ali",
                               city_id |-> <<"1">>]>>}
    /\ stores = <<[store_id |-> <<"1">>, store_name |-> "s1", city_id |-> <<"1">>]>>
    /\ cities \in CityLists
    /\ subcategories = <<[subcategory_id |-> <<"1">>, subcategory_name |-> "phones",
                          category_id |-> <<"1">>]>>
    /\ categories = <<[category_id |-> <<"1">>, category_name |-> "electronics"]>>
    /\ competitor = [size |-> 0, rows |-> <<>>]
    /\ legacy \in LegacyLists
    /\ \E mu \in {<<>>, <<2, 8>>} :
          marketing = [i \in 1..Len(mu) |->
                          [category |-> "electronics", month |-> <<1>>,
                           marketing_cost_usd |-> mu[i]]]
    /\ targets = <<>>
    /\ shipping = <<[region_name |-> "west", shipping_cost |-> 120],
                    [region_name |-> "west", shipping_cost |-> 125]>>
    /\ dim_product = create_dim_product
    /\ dim_store = create_dim_store
    /\ dim_customer = create_dim_customer
    /\ fact_sales = NoneDF
    /\ marketing_roi = NoneDF
    /\ dim_date = NoneDF
    /\ Dim_Product = t_dim_product
    /\ Dim_Store = t_dim_store
    /\ Dim_Customer = t_dim_customer
    /\ Dim_Date = t_dim_date
    /\ Fact_Sales = <<>>
    /\ reviews = <<>>
    /\ similarity = ExactScores
    /\ NothingPublished
    /\ td_pc = "fact"
    /\ t_pc = "fact"

NextRows == TD_calculate_net_profit \/ T_fact_sales

SpecRows == InitRows /\ [][NextRows]_vars

\* a run of each entry point up to its save, over a data/transformed that is
\* empty or holds the complete output of a previous run: what varies is the
\* extract that is missing, whether there are sales and marketing records,
\* and the files whose write fails
InitSave ==
    /\ \E missing \in {{}, {"stores.csv"}, {"subcategories.csv"}, {"customers.csv"}} :
          present = AllFiles \ missing
    /\ sales \in {<<>>,
                  <<[trans_id |-> <<"1">>, month |-> <<1>>, store_id |-> <<"1">>,
                     product_id |-> <<"1">>, customer_id |-> <<"1">>, quantity |-> 1,
                     total_revenue |-> 10000]>>}
    /\ products = <<[product_id |-> <<"1">>, product_name |-> <<"a", "b", "c">>,
                     subcategory_id |-> <<"1">>, unit_price |-> <<500>>,
                     unit_cost |-> <<330>>]>>
    /\ customers = <<[customer_id |-> <<"1">>, full_name |-> "ali", city_id |-> <<"1">>]>>
    /\ stores = <<[store_id |-> <<"1">>, store_name |-> "s1", city_id |-> <<"1">>]>>
    /\ cities = <<[city_id |-> <<"1">>, city_name |-> "oran", region |-> "west"]>>
    /\ subcategories = <<[subcategory_id |-> <<"1">>, subcategory_name |-> "phones",
                          category_id |-> <<"1">>]>>
    /\ categories = <<[category_id |-> <<"1">>, category_name |-> "electronics"]>>
    /\ competitor = [size |-> 0, rows |-> <<>>]
    /\ legacy = <<>>
    /\ marketing \in {<<>>,
                      <<[category |-> "electronics", month |-> <<1>>,
                         marketing_cost_usd |-> 100]>>}
    /\ targets = <<>>
    /\ shipping = <<[region_name |-> "west", shipping_cost |-> 120]>>
    /\ reviews = <<>>
    /\ similarity = ExactScores
    /\ write_fails \in SUBSET {"dim_store.csv", "fact_sales.csv", "Dim_Product.csv",
                                "Dim_Customer.csv", "Fact_Sales.csv"}
    /\ lacks = {}
    /\ db = [exists |-> FALSE, rows |-> <<>>]
    /\ dim_product = create_dim_product
    /\ dim_store = create_dim_store
    /\ dim_customer = create_dim_customer
    /\ fact_sales = NoneDF
    /\ marketing_roi = NoneDF
    /\ dim_date = NoneDF
    /\ Dim_Product = t_dim_product
    /\ Dim_Store = t_dim_store
    /\ Dim_Customer = t_dim_customer
    /\ Dim_Date = t_dim_date
    /\ Fact_Sales = <<>>
    /\ td_pc = "fact"
    /\ t_pc = "fact"
    /\ \E before \in {"absent", "previous"} : disk = [f \in TableFiles |-> before]
    /\ report = NoReport
    /\ auditor = NewAuditor
    /\ audit_pc = "idle"
    /\ create_db_pc = "idle"

NextSave ==
    \/ TD_calculate_net_profit
    \/ TD_create_dim_date
    \/ TD_calculate_marketing_roi
    \/ TD_save_all_tables
    \/ T_fact_sales
    \/ T_save

SpecSave == InitSave /\ [][NextSave]_vars

AuditSale(id, product, revenue) ==
    [trans_id |-> id, month |-> <<1>>, store_id |-> <<"1">>, product_id |-> product,
     customer_id |-> <<"1">>, quantity |-> 1, total_revenue |-> revenue]

\* a run of transform.py from its save on, and an audit that may start
\* before or after it: what varies is the sales (a product outside the
\* catalog, one or two lines), the marketing spend, the reviews, the extract
\* that is missing, the column an extract names differently, the write that
\* fails and the database
InitAudit ==
    /\ \E missing \in {{}, {"reviews.csv"}, {"products.csv"}} :
          present = (AllFiles \cup {"reviews.csv"}) \ missing
    /\ sales \in {<<>>,
                  <<AuditSale(<<"1">>, <<"1">>, 100)>>,
                  <<AuditSale(<<"1">>, <<"9">>, 100)>>,
                  <<AuditSale(<<"1">>, <<"1">>, 100), AuditSale(<<"2">>, <<"1">>, 2600)>>}
    /\ products = <<[product_id |-> <<"1">>, product_name |-> <<"a", "b", "c">>,
                     subcategory_id |-> <<"1">>, unit_price |-> <<50>>,
                     unit_cost |-> <<30>>]>>
    /\ customers = <<[customer_id |-> <<"1">>, full_name |-> "ali", city_id |-> <<"1">>]>>
    /\ stores = <<[store_id |-> <<"1">>, store_name |-> "s1", city_id |-> <<"1">>]>>
    /\ cities = <<[city_id |-> <<"1">>, city_name |-> "oran", region |-> "west"]>>
    /\ subcategories = <<[subcategory_id |-> <<"1">>, subcategory_name |-> "phones",
                          category_id |-> <<"1">>]>>
    /\ categories = <<[category_id |-> <<"1">>, category_name |-> "electronics"]>>
    /\ competitor = [size |-> 0, rows |-> <<>>]
    /\ legacy = <<>>
    /\ marketing \in {<<>>,
                      <<[category |-> "electronics", month |-> <<1>>,
                         marketing_cost_usd |-> 8]>>}
    /\ targets = <<>>
    /\ shipping = <<[region_name |-> "west", shipping_cost |-> 10]>>
    /\ reviews \in {<<>>,
                    <<[review_id |-> <<1>>, product_id |-> <<"1">>, rating |-> <<4>>,
                       review_text |-> <<"good">>]>>,
                    <<[review_id |-> <<2>>, product_id |-> <<"1">>, rating |-> <<3>>,
                       review_text |-> NaN]>>}
    /\ similarity = ExactScores
    /\ write_fails \in {{}, {"Dim_Date.csv"}}
    /\ lacks \in {{}, {<<"sales.csv", "Total_Revenue">>},
                  {<<"products.csv", "Unit_Cost">>}}
    /\ dim_product = NoneDF
    /\ dim_store = NoneDF
    /\ dim_customer = NoneDF
    /\ fact_sales = NoneDF
    /\ marketing_roi = NoneDF
    /\ dim_date = NoneDF
    /\ Dim_Product = t_dim_product
    /\ Dim_Store = t_dim_store
    /\ Dim_Customer = t_dim_customer
    /\ Dim_Date = t_dim_date
    /\ Fact_Sales = t_fact_sales
    /\ db \in {[exists |-> FALSE, rows |-> <<>>],
               [exists |-> TRUE, rows |-> <<>>],
               [exists |-> TRUE,
                rows |-> [t \in {DbTables[i] : i \in 1..Len(DbTables)} |->
                             Len(TableOf(t))]]}
    /\ td_pc = "idle"
    /\ t_pc = "save"
    /\ disk = [f \in TableFiles |-> "absent"]
    /\ report = NoReport
    /\ auditor = NewAuditor
    /\ audit_pc = "start"
    /\ create_db_pc = "idle"

NextAudit == T_save \/ Audit_save_report

SpecAudit == InitAudit /\ [][NextAudit]_vars

\* product names: 'Abc ' (an exact match of 'abc' once normalised), 'abc1'
\* (contains 'abc', differs from 'abc2' in its last character), 'ab'
MatchProductLists ==
    {<<<<"A", "b", "c", " ">>>>, <<<<"a", "b", "c", "1">>>>, <<<<"a", "b">>>>,
     <<<<"A", "b", "c", " ">>, <<"a", "b", "c", "1">>>>,
     <<<<"a", "b", "c", "1">>, <<"a", "b">>>>}

\* competitor_prices.csv: missing, of 0 bytes, holding its header only, a
\* short list (under 100 bytes) and longer lists
MatchCompetitorFiles ==
    {[there |-> FALSE, size |-> 0, rows |-> <<>>],
     [there |-> TRUE, size |-> 0, rows |-> <<>>],
     [there |-> TRUE, size |-> 41, rows |-> <<>>],
     [there |-> TRUE, size |-> 60,
      rows |-> <<[competitor_product_name |-> <<"a", "b", "c">>,
                  competitor_price |-> <<900>>]>>],
     [there |-> TRUE, size |-> 200,
      rows |-> <<[competitor_product_name |-> <<"a", "b", "c">>,
                  competitor_price |-> <<900>>]>>],
     [there |-> TRUE, size |-> 200,
      rows |-> <<[competitor_product_name |-> <<"a", "b", "c", "2">>,
                  competitor_price |-> <<950>>]>>],
     [there |-> TRUE, size |-> 200,
      rows |-> <<[competitor_product_name |-> <<"a", "b", "c", "2">>,
                  competitor_price |-> <<950>>],
                 [competitor_product_name |-> <<"a", "b", "c">>,
                  competitor_price |-> <<900>>]>>]}

\* scores on both sides of the threshold; equal strings score 100
MatchScores == {50, 80, 81}

\* the competitor price integration of both entry points: what varies is
\* the product names, the competitor file and the score of each pair
InitMatch ==
    /\ \E names \in MatchProductLists :
          products = [i \in 1..Len(names) |->
                         [product_id |-> IntToDigits(i), product_name |-> names[i],
                          subcategory_id |-> <<"1">>, unit_price |-> <<500>>,
                          unit_cost |-> <<330>>]]
    /\ \E file \in MatchCompetitorFiles :
          /\ present = IF file.there THEN AllFiles \cup {"competitor_prices.csv"}
                       ELSE AllFiles
          /\ competitor = [size |-> file.size, rows |-> file.rows]
    /\ similarity \in [NamePairs -> MatchScores \cup {100}]
    /\ \A p \in NamePairs : p[1] = p[2] => similarity[p] = 100
    /\ sales = <<>>
    /\ customers = <<[customer_id |-> <<"1">>, full_name |-> "ali", city_id |-> <<"1">>]>>
    /\ stores = <<[store_id |-> <<"1">>, store_name |-> "s1", city_id |-> <<"1">>]>>
    /\ cities = <<[city_id |-> <<"1">>, city_name |-> "oran", region |-> "west"]>>
    /\ subcategories = <<[subcategory_id |-> <<"1">>, subcategory_name |-> "phones",
                          category_id |-> <<"1">>]>>
    /\ categories = <<[category_id |-> <<"1">>, category_name |-> "electronics"]>>
    /\ legacy = <<>>
    /\ marketing = <<>>
    /\ targets = <<>>
    /\ shipping = <<>>
    /\ reviews = <<>>
    /\ dim_product = NoneDF
    /\ dim_store = NoneDF
    /\ dim_customer = NoneDF
    /\ fact_sales = NoneDF
    /\ marketing_roi = NoneDF
    /\ dim_date = NoneDF
    /\ Dim_Product = <<>>
    /\ Dim_Store = <<>>
    /\ Dim_Customer = <<>>
    /\ Dim_Date = <<>>
    /\ Fact_Sales = <<>>
    /\ NothingPublished
    /\ td_pc = "dim_product"
    /\ t_pc = "dims"

NextMatch == TD_create_dim_product \/ T_dimensions

SpecMatch == InitMatch /\ [][NextMatch]_vars

\* the longest review file of the model
MaxReviews == 3

\* what a review row can hold: a product of the catalog or no product, a
\* rating or none, a text with a score, a blank text or none
ReviewKinds ==
    {[product_id |-> id, rating |-> k[1], review_text |-> k[2]] :
        id \in {<<"1">>, <<"2">>},
        k \in {<<Num(5), <<"good">>>>, <<Num(2), <<"bad">>>>, <<NaN, NaN>>,
               <<Num(4), <<" ">>>>}}
    \cup {[product_id |-> NaN, rating |-> Num(5), review_text |-> <<"good">>]}

\* the review aggregation of both entry points: what varies is the review
\* file, its rows and their order
InitSentiment ==
    /\ products = [i \in 1..2 |->
                       [product_id |-> IntToDigits(i),
                        product_name |-> IF i = 1 THEN <<"a", "b", "c">>
                                        ELSE <<"a", "b">>,
                        subcategory_id |-> <<"1">>, unit_price |-> <<500>>,
                        unit_cost |-> <<330>>]]
    /\ present = AllFiles \cup {"reviews.csv"}
    /\ competitor = [size |-> 0, rows |-> <<>>]
    /\ similarity = ExactScores
    /\ \E kinds \in SeqsUpTo(ReviewKinds, MaxReviews) :
          reviews = [i \in 1..Len(kinds) |-> [review_id |-> <<i>>] @@ kinds[i]]
    /\ sales = <<>>
    /\ customers = <<[customer_id |-> <<"1">>, full_name |-> "ali", city_id |-> <<"1">>]>>
    /\ stores = <<[store_id |-> <<"1">>, store_name |-> "s1", city_id |-> <<"1">>]>>
    /\ cities = <<[city_id |-> <<"1">>, city_name |-> "oran", region |-> "west"]>>
    /\ subcategories = <<[subcategory_id |-> <<"1">>, subcategory_name |-> "phones",
                          category_id |-> <<"1">>]>>
    /\ categories = <<[category_id |-> <<"1">>, category_name |-> "electronics"]>>
    /\ legacy = <<>>
    /\ marketing = <<>>
    /\ targets = <<>>
    /\ shipping = <<>>
    /\ dim_product = NoneDF
    /\ dim_store = NoneDF
    /\ dim_customer = NoneDF
    /\ fact_sales = NoneDF
    /\ marketing_roi = NoneDF
    /\ dim_date = NoneDF
    /\ Dim_Product = <<>>
    /\ Dim_Store = <<>>
    /\ Dim_Customer = <<>>
    /\ Dim_Date = <<>>
    /\ Fact_Sales = <<>>
    /\ NothingPublished
    /\ td_pc = "dim_product"
    /\ t_pc = "dims"

NextSentiment == TD_create_dim_product \/ T_dimensions

SpecSentiment == InitSentiment /\ [][NextSentiment]_vars

\* the records of a legacy extract: every field read, or a field left empty
LegacyRows ==
    LET full == [month |-> <<1>>, customer_id |-> <<"1">>, quantity |-> <<2>>,
                 total_revenue |-> <<500>>]
    IN  {full, [f \in DOMAIN full |-> NaN]}
        \cup {[full EXCEPT ![f] = NaN] : f \in DOMAIN full}

\* the longest legacy extract of the model
MaxLegacy == 2

\* transform.py over a non-empty legacy extract: what varies is the records,
\* the values they lack, the column the file lacks, and the sales
InitLegacy ==
    /\ products = <<[product_id |-> <<"1">>, product_name |-> <<"a", "b", "c">>,
                      subcategory_id |-> <<"1">>, unit_price |-> <<500>>,
                      unit_cost |-> <<330>>]>>
    /\ present = AllFiles \cup {"legacy_sales_2022.csv"}
    /\ competitor = [size |-> 0, rows |-> <<>>]
    /\ similarity = ExactScores
    /\ sales \in {<<>>, <<[trans_id |-> <<"1">>, month |-> <<1>>, store_id |-> <<"1">>,
                            product_id |-> <<"1">>, customer_id |-> <<"1">>,
                            quantity |-> 1, total_revenue |-> 1000]>>}
    /\ lacks \in {{}} \cup {{<<"legacy_sales_2022.csv", c>>} : c \in LegacyColumns}
    /\ legacy \in SeqsUpTo(LegacyRows, MaxLegacy) \ {<<>>}
    /\ \A i \in 1..Len(legacy) :
          /\ <<"legacy_sales_2022.csv", "date">> \in lacks => IsNa(legacy[i].month)
          /\ <<"legacy_sales_2022.csv", "customer_id">> \in lacks
                => IsNa(legacy[i].customer_id)
          /\ <<"legacy_sales_2022.csv", "quantity">> \in lacks => IsNa(legacy[i].quantity)
          /\ <<"legacy_sales_2022.csv", "total_revenue">> \in lacks
                => IsNa(legacy[i].total_revenue)
    /\ customers = <<[customer_id |-> <<"1">>, full_name |-> "ali", city_id |-> <<"1">>]>>
    /\ stores = <<[store_id |-> <<"1">>, store_name |-> "s1", city_id |-> <<"1">>]>>
    /\ cities = <<[city_id |-> <<"1">>, city_name |-> "oran", region |-> "west"]>>
    /\ subcategories = <<[subcategory_id |-> <<"1">>, subcategory_name |-> "phones",
                          category_id |-> <<"1">>]>>
    /\ categories = <<[category_id |-> <<"1">>, category_name |-> "electronics"]>>
    /\ marketing = <<>>
    /\ targets = <<>>
    /\ shipping = <<>>
    /\ reviews = <<>>
    /\ dim_product = NoneDF
    /\ dim_store = NoneDF
    /\ dim_customer = NoneDF
    /\ fact_sales = NoneDF
    /\ marketing_roi = NoneDF
    /\ dim_date = NoneDF
    /\ Dim_Product = <<>>
    /\ Dim_Store = <<>>
    /\ Dim_Customer = <<>>
    /\ Dim_Date = <<>>
    /\ Fact_Sales = <<>>
    /\ write_fails = {}
    /\ db = [exists |-> FALSE, rows |-> <<>>]
    /\ create_db_pc = "idle"
    /\ disk = [f \in TableFiles |-> "absent"]
    /\ report = NoReport
    /\ auditor = NewAuditor
    /\ audit_pc = "idle"
    /\ td_pc = "dim_product"
    /\ t_pc = "dims"

NextLegacy == T_dimensions \/ T_fact_sales

SpecLegacy == InitLegacy /\ [][NextLegacy]_vars

\* the revenues of the sales extract: a total that is positive, zero or
\* negative, on one line or two
RevenueLists ==
    {<<10000>>, <<5000, 5000>>, <<100>>, <<0>>, <<0, 0>>, <<-10000>>, <<-100, 100>>}

\* the revenues of the legacy lines, which the fact table has and the sales
\* extract has not: nothing, 0.01% and 1% of a total, and just below
LegacyRevenueLists == {<<>>, <<Num(0)>>, <<Num(1)>>, <<Num(99)>>, <<Num(100)>>, <<NaN>>}

\* a run of transform.py from its save on, and an audit of its output: what
\* varies is the revenue of the sales extract and the revenue the legacy
\* lines add to the fact table
InitRevenue ==
    /\ present = AllFiles \cup {"reviews.csv", "legacy_sales_2022.csv"}
    /\ \E revs \in RevenueLists :
          sales = [i \in 1..Len(revs) |-> AuditSale(IntToDigits(i), <<"1">>, revs[i])]
    /\ products = <<[product_id |-> <<"1">>, product_name |-> <<"a", "b", "c">>,
                     subcategory_id |-> <<"1">>, unit_price |-> <<50>>,
                     unit_cost |-> <<30>>]>>
    /\ customers = <<[customer_id |-> <<"1">>, full_name |-> "ali", city_id |-> <<"1">>]>>
    /\ stores = <<[store_id |-> <<"1">>, store_name |-> "s1", city_id |-> <<"1">>]>>
    /\ cities = <<[city_id |-> <<"1">>, city_name |-> "oran", region |-> "west"]>>
    /\ subcategories = <<[subcategory_id |-> <<"1">>, subcategory_name |-> "phones",
                          category_id |-> <<"1">>]>>
    /\ categories = <<[category_id |-> <<"1">>, category_name |-> "electronics"]>>
    /\ competitor = [size |-> 0, rows |-> <<>>]
    /\ \E revs \in LegacyRevenueLists :
          legacy = [i \in 1..Len(revs) |->
                       [month |-> <<1>>, customer_id |-> <<"1">>, quantity |-> <<1>>,
                        total_revenue |-> revs[i]]]
    /\ marketing = <<>>
    /\ targets = <<>>
    /\ shipping = <<[region_name |-> "west", shipping_cost |-> 10]>>
    /\ reviews = <<[review_id |-> <<1>>, product_id |-> <<"1">>, rating |-> <<4>>,
                     review_text |-> <<"good">>]>>
    /\ similarity = ExactScores
    /\ write_fails = {}
    /\ lacks = {}
    /\ dim_product = NoneDF
    /\ dim_store = NoneDF
    /\ dim_customer = NoneDF
    /\ fact_sales = NoneDF
    /\ marketing_roi = NoneDF
    /\ dim_date = NoneDF
    /\ Dim_Product = t_dim_product
    /\ Dim_Store = t_dim_store
    /\ Dim_Customer = t_dim_customer
    /\ Dim_Date = t_dim_date
    /\ Fact_Sales = t_fact_sales
    /\ db = [exists |-> FALSE, rows |-> <<>>]
    /\ td_pc = "idle"
    /\ t_pc = "save"
    /\ disk = [f \in TableFiles |-> "absent"]
    /\ report = NoReport
    /\ auditor = NewAuditor
    /\ audit_pc = "start"
    /\ create_db_pc = "idle"

NextRevenue == T_save \/ Audit_save_report

SpecRevenue == InitRevenue /\ [][NextRevenue]_vars

\* the published database of an earlier load: the five tables, filled
PreviousDb ==
    [exists |-> TRUE,
     rows |-> [t \in {LoadOrder[i] : i \in 1..Len(LoadOrder)} |-> 7]]

\* a load of the output of transform.py over a published database: what
\* varies is the sales, the catalog (with a product id on two lines or not),
\* the customers and whether a file of data/transformed is missing
InitDatabase ==
    /\ present = AllFiles
    /\ \E ch \in SeqsUpTo([trans_id : TransIds, product_id : {<<"1">>, <<"9">>}],
                          MaxSales) :
          sales = [i \in 1..Len(ch) |->
                      [trans_id |-> ch[i].trans_id, month |-> <<1>>,
                       store_id |-> <<"1">>, product_id |-> ch[i].product_id,
                       customer_id |-> <<"1">>, quantity |-> 1,
                       total_revenue |-> 1000 * i]]
    /\ products \in ProductLists
    /\ customers \in {<<>>, <<[customer_id |-> <<"1">>, full_name |-> "ali",
                               city_id |-> <<"1">>]>>}
    /\ stores = <<[store_id |-> <<"1">>, store_name |-> "s1", city_id |-> <<"1">>]>>
    /\ cities = <<[city_id |-> <<"1">>, city_name |-> "oran", region |-> "west"]>>
    /\ subcategories = <<[subcategory_id |-> <<"1">>, subcategory_name |-> "phones",
                          category_id |-> <<"1">>]>>
    /\ categories = <<[category_id |-> <<"1">>, category_name |-> "electronics"]>>
    /\ competitor = [size |-> 0, rows |-> <<>>]
    /\ legacy = <<>>
    /\ marketing = <<>>
    /\ targets = <<>>
    /\ shipping = <<[region_name |-> "west", shipping_cost |-> 120],
                    [region_name |-> "west", shipping_cost |-> 125]>>
    /\ dim_product = NoneDF
    /\ dim_store = NoneDF
    /\ dim_customer = NoneDF
    /\ fact_sales = NoneDF
    /\ marketing_roi = NoneDF
    /\ dim_date = NoneDF
    /\ Dim_Product = t_dim_product
    /\ Dim_Store = t_dim_store
    /\ Dim_Customer = t_dim_customer
    /\ Dim_Date = t_dim_date
    /\ Fact_Sales = t_fact_sales
    /\ reviews = <<>>
    /\ similarity = ExactScores
    /\ write_fails = {}
    /\ lacks = {}
    /\ db = PreviousDb
    /\ create_db_pc = "start"
    /\ \E missing \in {{}, {"Fact_Sales.csv"}} :
          disk = [f \in TableFiles |-> IF f \in missing THEN "absent" ELSE "current"]
    /\ report = NoReport
    /\ auditor = NewAuditor
    /\ audit_pc = "idle"
    /\ td_pc = "idle"
    /\ t_pc = "done"

NextDatabase ==
    DB_load_files \/ DB_delete_old \/ DB_create_tables \/ DB_to_sql \/ DB_verify

SpecDatabase == InitDatabase /\ [][NextDatabase]_vars

\* steps 5 and 6 of transform_data.main, from the customer dimension on: what
\* varies is the customers (ids and names that repeat), the cities and the
\* customer each sale names
InitCustomer ==
    /\ present = AllFiles
    /\ \E ids \in SeqsUpTo({<<"1">>, <<"2">>, <<"9">>}, MaxSales) \ {<<>>} :
          sales = [i \in 1..Len(ids) |->
                      [trans_id |-> IntToDigits(i), month |-> <<1>>,
                       store_id |-> <<"1">>, product_id |-> <<"1">>,
                       customer_id |-> ids[i], quantity |-> 1,
                       total_revenue |-> 1000 * i]]
    /\ products = <<[product_id |-> <<"1">>, product_name |-> <<"a", "b", "c">>,
                      subcategory_id |-> <<"1">>, unit_price |-> <<500>>,
                      unit_cost |-> <<330>>]>>
    /\ customers \in CustomerLists
    /\ stores = <<[store_id |-> <<"1">>, store_name |-> "s1", city_id |-> <<"1">>]>>
    /\ cities \in CityLists
    /\ subcategories = <<[subcategory_id |-> <<"1">>, subcategory_name |-> "phones",
                          category_id |-> <<"1">>]>>
    /\ categories = <<[category_id |-> <<"1">>, category_name |-> "electronics"]>>
    /\ competitor = [size |-> 0, rows |-> <<>>]
    /\ legacy = <<>>
    /\ marketing = <<>>
    /\ targets = <<>>
    /\ shipping = <<[region_name |-> "west", shipping_cost |-> 120],
                    [region_name |-> "west", shipping_cost |-> 125]>>
    /\ dim_product = create_dim_product
    /\ dim_store = create_dim_store
    /\ dim_customer = NoneDF
    /\ fact_sales = NoneDF
    /\ marketing_roi = NoneDF
    /\ dim_date = NoneDF
    /\ Dim_Product = t_dim_product
    /\ Dim_Store = t_dim_store
    /\ Dim_Customer = t_dim_customer
    /\ Dim_Date = t_dim_date
    /\ Fact_Sales = <<>>
    /\ reviews = <<>>
    /\ similarity = ExactScores
    /\ NothingPublished
    /\ td_pc = "dim_customer"
    /\ t_pc = "fact"

NextCustomer == TD_create_dim_customer \/ TD_calculate_net_profit

SpecCustomer == InitCustomer /\ [][NextCustomer]_vars

\* an auditor that has just been constructed and is about to run checks:
\* what varies is the checks that are called, their order and their messages
InitScore ==
    /\ present = AllFiles \cup {"reviews.csv", "legacy_sales_2022.csv"}
    /\ sales = <<AuditSale(<<"1">>, <<"1">>, 100)>>
    /\ products = <<[product_id |-> <<"1">>, product_name |-> <<"a", "b", "c">>,
                     subcategory_id |-> <<"1">>, unit_price |-> <<50>>,
                     unit_cost |-> <<30>>]>>
    /\ customers = <<[customer_id |-> <<"1">>, full_name |-> "ali", city_id |-> <<"1">>]>>
    /\ stores = <<[store_id |-> <<"1">>, store_name |-> "s1", city_id |-> <<"1">>]>>
    /\ cities = <<[city_id |-> <<"1">>, city_name |-> "oran", region |-> "west"]>>
    /\ subcategories = <<[subcategory_id |-> <<"1">>, subcategory_name |-> "phones",
                          category_id |-> <<"1">>]>>
    /\ categories = <<[category_id |-> <<"1">>, category_name |-> "electronics"]>>
    /\ competitor = [size |-> 0, rows |-> <<>>]
    /\ legacy = <<>>
    /\ marketing = <<>>
    /\ targets = <<>>
    /\ shipping = <<[region_name |-> "west", shipping_cost |-> 10]>>
    /\ reviews = <<[review_id |-> <<1>>, product_id |-> <<"1">>, rating |-> <<4>>,
                     review_text |-> <<"good">>]>>
    /\ similarity = ExactScores
    /\ write_fails = {}
    /\ lacks = {}
    /\ dim_product = NoneDF
    /\ dim_store = NoneDF
    /\ dim_customer = NoneDF
    /\ fact_sales = NoneDF
    /\ marketing_roi = NoneDF
    /\ dim_date = NoneDF
    /\ Dim_Product = t_dim_product
    /\ Dim_Store = t_dim_store
    /\ Dim_Customer = t_dim_customer
    /\ Dim_Date = t_dim_date
    /\ Fact_Sales = t_fact_sales
    /\ db = [exists |-> FALSE, rows |-> <<>>]
    /\ td_pc = "idle"
    /\ t_pc = "save"
    /\ disk = [f \in TableFiles |-> "absent"]
    /\ report = NoReport
    /\ auditor = NewAuditor
    /\ audit_pc = "checking"
    /\ create_db_pc = "idle"

NextScore == Audit_check_pass \/ Audit_check_fail \/ Audit_check_warning

SpecScore == InitScore /\ [][NextScore]_vars

\* main from step 7 on a catalog of one product and at most one sale: the
\* calendar is built whatever the fact table holds
InitDate ==
    /\ present = AllFiles
    /\ \E ch \in SeqsUpTo([product_id : {<<"1">>, <<"9">>}, quantity : {1, 3},
                           total_revenue : RevenueValues], 1) :
          sales = [i \in 1..Len(ch) |->
                      [trans_id |-> IntToDigits(i), month |-> <<1>>,
                       store_id |-> <<"1">>, product_id |-> ch[i].product_id,
                       customer_id |-> <<"1">>, quantity |-> ch[i].quantity,
                       total_revenue |-> ch[i].total_revenue]]
    /\ \E uc \in UnitCostValues :
          products = <<[product_id |-> <<"1">>, product_name |-> <<"a", "b", "c">>,
                        subcategory_id |-> <<"1">>, unit_price |-> <<500>>,
                        unit_cost |-> uc]>>
    /\ customers = <<[customer_id |-> <<"1">>, full_name |-> "ali", city_id |-> <<"1">>]>>
    /\ stores = <<[store_id |-> <<"1">>, store_name |-> "s1", city_id |-> <<"1">>]>>
    /\ cities = <<[city_id |-> <<"1">>, city_name |-> "oran", region |-> "west"]>>
    /\ subcategories = <<[subcategory_id |-> <<"1">>, subcategory_name |-> "phones",
                          category_id |-> <<"1">>]>>
    /\ categories = <<[category_id |-> <<"1">>, category_name |-> "electronics"]>>
    /\ competitor = [size |-> 0, rows |-> <<>>]
    /\ legacy = <<>>
    /\ \E mu \in MarketingLists :
          marketing = [i \in 1..Len(mu) |->
                          [category |-> "electronics", month |-> <<1>>,
                           marketing_cost_usd |-> mu[i]]]
    /\ targets = <<>>
    /\ shipping = <<[region_name |-> "west", shipping_cost |-> 120]>>
    /\ dim_product = create_dim_product
    /\ dim_store = create_dim_store
    /\ dim_customer = create_dim_customer
    /\ fact_sales = calculate_net_profit(
                        harmonize_currency(clean_dataframes(marketing)),
                        clean_dataframes(shipping))
    /\ marketing_roi = NoneDF
    /\ dim_date = NoneDF
    /\ Dim_Product = t_dim_product
    /\ Dim_Store = t_dim_store
    /\ Dim_Customer = t_dim_customer
    /\ Dim_Date = t_dim_date
    /\ Fact_Sales = <<>>
    /\ reviews = <<>>
    /\ similarity = ExactScores
    /\ NothingPublished
    /\ td_pc = "dim_date"
    /\ t_pc = "fact"

NextDate == TD_create_dim_date \/ TD_calculate_marketing_roi

SpecDate == InitDate /\ [][NextDate]_vars

(***************************************************************************)
(* Claims                                                                  *)
(***************************************************************************)
TDBuilt == td_pc \in {"dim_date", "roi", "save", "done"}
TBuilt == t_pc \in {"save", "done", "failed"}

RowsOf(T) == {T[i] : i \in 1..Len(T)}

\* C1: every row of the fact table returned by calculate_net_profit has
\* marketing_cost <= 0.30 x total_revenue (all revenues being non-negative).
C1_MarketingCapTD ==
    TDBuilt => \A r \in RowsOf(fact_sales.rows) :
                   10 * r.marketing_cost <= 3 * r.total_revenue

\* The claim's proportional share of a fact row, from the inputs of the
\* profit family (one category, one month): revenue / revenue of the bucket
\* x marketing spend of the bucket, 0 for a product outside the catalog or an
\* empty bucket.
BucketRevenue ==
    SumSeq([i \in 1..Len(sales) |->
        IF sales[i].product_id = <<"1">> THEN sales[i].total_revenue ELSE 0])
BucketSpend ==
    LET mk == t_drop_duplicates(marketing)
    IN  SumSeq([i \in 1..Len(mk) |-> mk[i].marketing_cost_usd * EXCHANGE_RATE])
ShareOf(r) ==
    IF r.product_id # <<"1">> \/ BucketRevenue = 0 \/ marketing = <<>> THEN Rat(0, 1)
    ELSE Rat(r.total_revenue * BucketSpend, BucketRevenue)

\* C2: every row of the Fact_Sales table of transform.py has
\* allocated_marketing_dzd <= 0.30 x total_revenue, and a row whose
\* proportional share exceeds 30% of its revenue is charged exactly 30% of it.
C2_MarketingCapT ==
    TBuilt => \A r \in RowsOf(Fact_Sales) :
                  /\ ~RatLess(Rat(3 * r.total_revenue, 10), r.allocated_marketing_dzd)
                  /\ RatLess(Rat(3 * r.total_revenue, 10), ShareOf(r))
                        => RatEq(r.allocated_marketing_dzd, Rat(3 * r.total_revenue, 10))

\* C2 witness: revenue 100 with a proportional share of 40 is charged 30.
C2_Witness ==
    /\ TBuilt
    /\ \E r \in RowsOf(Fact_Sales) :
          /\ r.total_revenue = 100
          /\ RatEq(ShareOf(r), Rat(40, 1))
          /\ RatEq(r.allocated_marketing_dzd, Rat(30, 1))

\* net_profit minus (total_revenue - cost - shipping - marketing), as stored
TDResidual(r) ==
    r.net_profit - (r.total_revenue - r.cost - r.shipping_cost - r.marketing_cost)
TResidual(r) ==
    RatSub(Rat(r.net_profit, 1),
           RatSub(RatSub(Rat(r.total_revenue - r.cost, 1), r.shipping_cost_total),
                  r.allocated_marketing_dzd))

\* C3: in every fact row of both builders the stored net_profit is within
\* 0.01 (10 mills) of total_revenue - cost - shipping cost - marketing cost
\* computed from the values stored in the same row.
C3_NetProfitFormula ==
    /\ TDBuilt => \A r \in RowsOf(fact_sales.rows) : Abs(TDResidual(r)) <= 10
    /\ TBuilt => \A r \in RowsOf(Fact_Sales) :
                    LET x == TResidual(r) IN Abs(x.n) <= 10 * x.d

\* C3 witness: both tables are built, rounding moved a stored value in each
\* (a residual that is not 0), and every cost column is in play.
C3_Witness ==
    /\ TDBuilt /\ TBuilt
    /\ \E r \in RowsOf(fact_sales.rows) :
          TDResidual(r) # 0 /\ r.cost > 0 /\ r.shipping_cost > 0 /\ r.marketing_cost > 0
    /\ \E r \in RowsOf(Fact_Sales) :
          TResidual(r).n # 0 /\ r.cost > 0 /\ r.allocated_marketing_dzd.n > 0

\* no two rows of the table share the key
UniqueKey(T, Key(_)) ==
    \A i, j \in 1..Len(T) : Key(T[i]) = Key(T[j]) => i = j

TDDimsBuilt == td_pc = "fact"
TDimsBuilt == t_pc = "fact"

\* C4: create_dim_product, create_dim_store and create_dim_customer each
\* return a table in which no two rows share the primary key.
C4_DimKeysUniqueTD ==
    TDDimsBuilt =>
        /\ UniqueKey(dim_product.rows, LAMBDA r : r.product_id)
        /\ UniqueKey(dim_store.rows, LAMBDA r : r.store_id)
        /\ UniqueKey(dim_customer.rows, LAMBDA r : r.customer_id)

\* C5: the Dim_Product, Dim_Store and Dim_Customer tables of transform.py
\* contain no two rows with the same product_id, store_id or customer_id.
C5_DimKeysUniqueT ==
    TDimsBuilt =>
        /\ UniqueKey(Dim_Product, LAMBDA r : r.product_id)
        /\ UniqueKey(Dim_Store, LAMBDA r : r.store_id)
        /\ UniqueKey(Dim_Customer, LAMBDA r : r.customer_id)

\* C7: every distinct raw trans_id of the sales extract has a row in the fact
\* table returned by calculate_net_profit, under its cleaned id, and no
\* transaction is dropped: the table has a row for each of them.
C7_EveryTransactionKeptTD ==
    TDBuilt =>
        /\ \A i \in 1..Len(sales) :
              \E r \in RowsOf(fact_sales.rows) :
                  r.trans_id = clean_id_column(sales[i].trans_id)
        /\ Len(fact_sales.rows) >= Cardinality({sales[i].trans_id : i \in 1..Len(sales)})

\* C8: the Fact_Sales table of transform.py has exactly one row per sale
\* line: no two rows share a trans_id, and it has as many rows as the cleaned
\* sales frame with the legacy rows appended.
C8_OneRowPerSaleT ==
    TBuilt =>
        /\ UniqueKey(Fact_Sales, LAMBDA r : r.trans_id)
        /\ Len(Fact_Sales) = Len(t_sales)

TDRunEnded == td_pc \in {"done", "returned"}
TRunEnded == t_pc \in {"done", "failed"}

\* the files are all the output of this run, or none of them is (the
\* directory held the complete output of the previous run, or nothing)
AllOrNothing(files) ==
    \/ \A i \in 1..Len(files) : disk[files[i]] = "current"
    \/ \A i \in 1..Len(files) : disk[files[i]] # "current"

\* C9: after a run of transform_data.main or of transform.py, the table
\* files of that entry point are entirely the output of this run or entirely
\* what was there before it, never a mixture.
C9_PublishAllOrNothing ==
    /\ TDRunEnded => AllOrNothing(TDFiles)
    /\ TRunEnded => AllOrNothing(TFiles)

\* the reference of a fact row resolves to a row of the published dimension
Resolves(r, rel) ==
    CASE rel = "product" -> \E d \in RowsOf(Dim_Product) : d.product_id = r.product_id
      [] rel = "store" -> \E d \in RowsOf(Dim_Store) : d.store_id = r.store_id
      [] rel = "customer" -> \E d \in RowsOf(Dim_Customer) : d.customer_id = r.customer_id

\* C6: after an audit run, every product, store and customer reference of a
\* fact row resolves to a row of the published dimension, or the report has
\* an orphan count for that relationship.
C6_OrphansReported ==
    (audit_pc = "done" /\ report.written) =>
        \A r \in RowsOf(Fact_Sales), rel \in {"product", "store", "customer"} :
            \/ Resolves(r, rel)
            \/ \E l \in RowsOf(report.lines) : l.kind = "orphans" /\ l.name = rel

\* C10: a run of save_report ends with the report written, whatever the
\* outcomes of the checks and whatever file or column is missing.
C10_ReportAlwaysWritten ==
    audit_pc \in {"done", "raised"} => report.written

\* the extracts a dimension file of transform_data.main is built from
TDSourcesOf(f) ==
    CASE f = "dim_product.csv" -> {"products.csv"}
      [] f = "dim_store.csv" -> {"stores.csv", "cities.csv"}
      [] f = "dim_customer.csv" -> {"customers.csv", "cities.csv"}
      [] OTHER -> {}

\* C11: with one extract missing and every write succeeding, a run of either
\* entry point ends with the tables of the other entities published:
\* transform_data.main writes every dimension whose extracts are present
\* (and the calendar), transform.py writes its five files.
C11_MissingSourceStillPublishes ==
    /\ (TDRunEnded /\ write_fails = {}) =>
           \A f \in {"dim_product.csv", "dim_store.csv", "dim_customer.csv",
                      "dim_date.csv"} :
               TDSourcesOf(f) \subseteq present => disk[f] = "current"
    /\ (TRunEnded /\ write_fails = {}) =>
           \A i \in 1..Len(TFiles) : disk[TFiles[i]] = "current"

RECURSIVE Gcd(_, _)
Gcd(a, b) == IF b = 0 THEN a ELSE Gcd(b, a % b)

\* a non-negative rational in lowest terms
Reduced(x) ==
    LET g == Gcd(x.n, x.d) IN IF g = 0 THEN x ELSE Rat(x.n \div g, x.d \div g)

\* the spend of the bucket as calculate_net_profit receives it: the sum of
\* the records' marketing_cost_dzd, each rounded by harmonize_currency
TDBucketSpend ==
    LET mk == harmonize_currency(clean_dataframes(marketing))
    IN  SumSeq([i \in 1..Len(mk) |-> mk[i].marketing_cost_dzd])

\* C12: before the cap, the marketing amount of a fact row is its revenue /
\* the revenue of its (category, month) bucket x the sum of the marketing
\* records of the bucket, and 0 for a bucket without revenue or without a
\* record: calculate_net_profit stores it rounded to 0.01, transform.py
\* stores it whenever it is within 30% of the revenue.
C12_ProportionalAllocation ==
    /\ TDBuilt => \A r \in RowsOf(fact_sales.rows) :
           r.marketing_cost =
               IF r.product_id # 1 \/ BucketRevenue = 0 \/ marketing = <<>> THEN 0
               ELSE Round2Rat(r.total_revenue * TDBucketSpend, BucketRevenue)
    /\ TBuilt => \A r \in RowsOf(Fact_Sales) :
           ~RatLess(Rat(3 * r.total_revenue, 10), ShareOf(r))
               => Reduced(r.allocated_marketing_dzd) = Reduced(ShareOf(r))

\* the highest score of a product name against the competitor names, 0
\* without a competitor row, and the first row that reaches it
BestScore(name) ==
    LET S == {similarity[<<LowerName(name),
                           LowerName(competitor.rows[j].competitor_product_name)>>] :
                  j \in 1..Len(competitor.rows)}
    IN  IF S = {} THEN 0 ELSE CHOOSE x \in S : \A y \in S : y <= x
BestEntry(name) ==
    LET first == CHOOSE j \in 1..Len(competitor.rows) :
            /\ similarity[<<LowerName(name),
                   LowerName(competitor.rows[j].competitor_product_name)>>] = BestScore(name)
            /\ \A k \in 1..(j - 1) :
                   similarity[<<LowerName(name),
                       LowerName(competitor.rows[k].competitor_product_name)>>]
                       < BestScore(name)
    IN  competitor.rows[first]

TDProductBuilt == td_pc = "dim_store" /\ ~dim_product.none

\* C13: in the product dimension of transform_data.py a product whose best
\* score against the competitor names is above 80 has the price of the
\* best-scoring entry, and a product whose best score is 80 or less has
\* competitor_price, price_difference and price_difference_pct null.
C13_FuzzyThresholdTD ==
    TDProductBuilt => \A r \in RowsOf(dim_product.rows) :
        IF BestScore(r.product_name) > 80
        THEN r.competitor_price = BestEntry(r.product_name).competitor_price
        ELSE /\ IsNa(r.competitor_price)
             /\ IsNa(r.price_difference)
             /\ IsNa(r.price_difference_pct)

\* C13 witness: one product accepted at a best score of 81 and priced,
\* another refused at a best score of exactly 80.
C13_Witness ==
    /\ TDProductBuilt
    /\ \E r \in RowsOf(dim_product.rows) :
          BestScore(r.product_name) = 81 /\ ~IsNa(r.competitor_price)
    /\ \E r \in RowsOf(dim_product.rows) :
          BestScore(r.product_name) = 80 /\ IsNa(r.competitor_price)

\* the competitor entries whose normalised name equals the product's
ExactCompetitors(name) ==
    {c \in RowsOf(competitor.rows) :
        match_name(c.competitor_product_name) = match_name(name)}

\* C14: in the product dimension of transform.py a product whose normalised
\* name equals a competitor's normalised name has that competitor's price,
\* and a product without an exact match has a competitor price only if its
\* score against some competitor name is above 80.
C14_PriceReconciliationT ==
    TDimsBuilt => \A r \in RowsOf(Dim_Product) :
        IF ExactCompetitors(r.product_name) # {}
        THEN \E c \in ExactCompetitors(r.product_name) :
                 r.competitor_price = c.competitor_price
        ELSE ~IsNa(r.competitor_price) =>
                 \E j \in 1..Len(competitor.rows) :
                     similarity[<<LowerName(r.product_name),
                         LowerName(competitor.rows[j].competitor_product_name)>>] > 80

\* the cleaned customer records, in file order
CleanCustomers ==
    [i \in 1..Len(customers) |->
        [customer_id |-> clean_id_column(customers[i].customer_id),
         full_name |-> customers[i].full_name,
         city_id |-> clean_id_column(customers[i].city_id)]]

\* C15: no two rows of the table returned by create_dim_customer have the
\* same (full_name, city), and customer records with different ids and the
\* same name and city are represented by exactly one row, the first-seen one.
C15_OneRowPerNameCity ==
    (TDDimsBuilt /\ ~dim_customer.none) =>
        /\ UniqueKey(dim_customer.rows, LAMBDA r : <<r.full_name, r.city_id>>)
        /\ \A i, j \in 1..Len(CleanCustomers) :
               LET a == CleanCustomers[i]
                   b == CleanCustomers[j]
               IN  (i < j /\ a.customer_id # b.customer_id
                    /\ a.full_name = b.full_name /\ a.city_id = b.city_id)
                   => /\ ~\E r \in RowsOf(dim_customer.rows) :
                             r.customer_id = b.customer_id
                      /\ Cardinality({k \in 1..Len(dim_customer.rows) :
                             /\ dim_customer.rows[k].full_name = a.full_name
                             /\ dim_customer.rows[k].city_id = a.city_id}) = 1

IsLeap(y) == y % 4 = 0 /\ (y % 100 # 0 \/ y % 400 = 0)

DaysInMonth(y, m) ==
    IF m = 2 THEN (IF IsLeap(y) THEN 29 ELSE 28)
    ELSE IF m \in {4, 6, 9, 11} THEN 30 ELSE 31

\* the calendar days of 2023 and 2024
CalendarDays ==
    {<<y, m, d>> \in {2023, 2024} \X (1..12) \X (1..31) : d <= DaysInMonth(y, m)}

\* the day of the week of a civil date, 1 = Monday .. 7 = Sunday
WeekdayOf(y, m, d) ==
    LET t == <<0, 3, 2, 5, 0, 3, 5, 1, 4, 6, 2, 4>>
        yy == IF m < 3 THEN y - 1 ELSE y
        w == (yy + yy \div 4 - yy \div 100 + yy \div 400 + t[m] + d) % 7
    IN  IF w = 0 THEN 7 ELSE w

TDDateBuilt == td_pc \in {"roi", "save", "done"}

\* C16: the calendar table of transform_data holds exactly one row for every
\* calendar day from 2023-01-01 to 2024-12-31, in order and without a gap; a
\* row's date_id is year * 10000 + month * 100 + day, no date_id repeats, and
\* day_of_week is 1 for a Monday up to 7 for a Sunday
C16_CalendarTable ==
    TDDateBuilt =>
        LET D == dim_date.rows
        IN  /\ ~dim_date.none
            /\ {<<D[i].year, D[i].month, D[i].day>> : i \in 1..Len(D)} = CalendarDays
            /\ Len(D) = Cardinality(CalendarDays)
            /\ \A i \in 1..Len(D) :
                  /\ D[i].date_id = D[i].year * 10000 + D[i].month * 100 + D[i].day
                  /\ D[i].day_of_week = WeekdayOf(D[i].year, D[i].month, D[i].day)
                  /\ D[i].day_of_week \in 1..7
            /\ \A i \in 1..(Len(D) - 1) : D[i].date_id < D[i + 1].date_id
            /\ D[1].date_id = 20230101
            /\ D[Len(D)].date_id = 20241231

\* the calendar is built: it holds the leap day, a Thursday, and a Monday
\* numbered 1 and a Sunday numbered 7
C16_Witness ==
    /\ TDDateBuilt
    /\ Len(dim_date.rows) = 731
    /\ \E i \in 1..Len(dim_date.rows) :
          /\ dim_date.rows[i].date_id = 20240229
          /\ dim_date.rows[i].day_of_week = 4
          /\ dim_date.rows[i].day_name = "Thursday"
    /\ \E i \in 1..Len(dim_date.rows) :
          dim_date.rows[i].date_id = 20230102 /\ dim_date.rows[i].day_of_week = 1
    /\ \E i \in 1..Len(dim_date.rows) :
          dim_date.rows[i].date_id = 20230101 /\ dim_date.rows[i].day_of_week = 7

\* the per-unit rates the shipping extract holds for a region, as rationals,
\* with their mean; the fallback rate when it holds none
RatesOf(region) ==
    LET rs == SelectSeq(shipping, LAMBDA r : r.region_name = region)
    IN  IF rs = <<>> THEN {Rat(FALLBACK_SHIPPING, 1)}
        ELSE {Rat(rs[i].shipping_cost, 1) : i \in 1..Len(rs)}
             \cup {Rat(SumSeq([i \in 1..Len(rs) |-> rs[i].shipping_cost]), Len(rs))}

\* the region of the customer of every sale of the family
CustomerRegion == cities[1].region

\* C17: in both fact tables every row's shipping cost is quantity x a per-unit
\* rate of the region of the transaction's customer (the fallback rate when
\* the region has none), and is never null
C17_ShippingPerUnitTimesQuantity ==
    /\ TDBuilt =>
          \A r \in RowsOf(fact_sales.rows) :
              \E rate \in RatesOf(CustomerRegion) :
                  Reduced(Rat(r.shipping_cost, 1)) = Reduced(Rat(r.quantity * rate.n, rate.d))
    /\ TBuilt =>
          \A r \in RowsOf(Fact_Sales) :
              \E rate \in RatesOf(CustomerRegion) :
                  Reduced(r.shipping_cost_total) = Reduced(Rat(r.quantity * rate.n, rate.d))

\* no competitor file, a file of zero bytes, or a file without a data row
CompetitorUnusable ==
    \/ "competitor_prices.csv" \notin present
    \/ competitor.size = 0
    \/ competitor.rows = <<>>

\* the rows of a product dimension stand one to one for the products of the
\* catalog (whose ids are distinct), and the three competitor columns of each
\* are null
AllUnpriced(rows, id(_)) ==
    /\ Len(rows) = Len(products)
    /\ \A p \in RowsOf(products) :
          Cardinality({i \in 1..Len(rows) : id(rows[i]) = p.product_id}) = 1
    /\ \A i \in 1..Len(rows) :
          /\ IsNa(rows[i].competitor_price)
          /\ IsNa(rows[i].price_difference)
          /\ IsNa(rows[i].price_difference_pct)

CatalogIds == {products[i].product_id : i \in 1..Len(products)}

\* the first catalog row of a raw id
FirstOf(id) ==
    products[CHOOSE i \in 1..Len(products) :
                 /\ products[i].product_id = id
                 /\ \A k \in 1..(i - 1) : products[k].product_id # id]

\* C19: the product dimension of transform_data.py has exactly one row for
\* each distinct raw product id of the catalog: ids that differ are never
\* collapsed into one row, none is left without a row, and the row of an id
\* that repeats is its first-seen row
C19_OneRowPerCatalogId ==
    TDProductBuilt =>
        /\ Len(dim_product.rows) = Cardinality(CatalogIds)
        /\ \A id \in CatalogIds :
              \E r \in RowsOf(dim_product.rows) :
                  /\ r.product_id = clean_id_column(id)
                  /\ r.product_name = FirstOf(id).product_name

\* the monthly target records of a store, by its numeric id
TargetsOf(id) == SelectSeq(targets, LAMBDA r : r.store_id = <<id>>)

TargetSum(id) == SumSeq([k \in 1..Len(TargetsOf(id)) |-> TargetsOf(id)[k].target_revenue])

\* C20: in both store dimensions a store that carries a target carries the
\* mean of its monthly target records (sum / number of records), not their sum
C20_StoreTargetIsMean ==
    /\ TDDimsBuilt =>
          \A r \in RowsOf(dim_store.rows) :
              r.monthly_target # 0 =>
                  r.monthly_target
                      = Round2Rat(TargetSum(r.store_id), Len(TargetsOf(r.store_id)))
    /\ TDimsBuilt =>
          \A r \in RowsOf(Dim_Store) :
              ~IsNa(r.target_revenue) =>
                  r.target_revenue[1] * Len(TargetsOf(clean_id_column(r.store_id)))
                      = TargetSum(clean_id_column(r.store_id))

\* C21: every row of the store dimension of transform_data.py has
\* annual_target = monthly_target x 12; a store without a target record has
\* both at 0
C21_AnnualTargetIsTwelveMonths ==
    TDDimsBuilt =>
        \A r \in RowsOf(dim_store.rows) :
            /\ r.annual_target = r.monthly_target * 12
            /\ TargetsOf(r.store_id) = <<>> =>
                  r.monthly_target = 0 /\ r.annual_target = 0

\* the store dimension is built with a store whose two records have a mean
\* that is rounded to cents
C21_Witness ==
    /\ TDDimsBuilt
    /\ \E r \in RowsOf(dim_store.rows) :
          /\ TargetSum(r.store_id) = 3005
          /\ r.monthly_target = 1500
          /\ r.annual_target = 18000

\* the unit cost of the catalog product a sale refers to, 0 when the catalog
\* has no such product or the product has no cost
UnitCostOf(product_id) ==
    LET ps == SelectSeq(products, LAMBDA p : p.product_id = product_id)
    IN  IF ps = <<>> THEN 0 ELSE FillNa(ps[1].unit_cost, 0)

\* the sale a fact row of calculate_net_profit stands for (trans ids are the
\* positions of the sales of the family)
SaleOf(r) == sales[r.trans_id]

Reordered(pi) == [i \in 1..Len(reviews) |-> reviews[pi[i]]]

\* the (avg_sentiment, avg_rating, review_count) of the rows of a table
SentimentTriples(rows, id(_)) ==
    {<<id(rows[i]), rows[i].avg_sentiment, rows[i].avg_rating, rows[i].review_count>> :
        i \in 1..Len(rows)}

ReviewsOf(id) == SelectSeq(reviews, LAMBDA r : r.product_id = id)

\* C24: in both product dimensions every catalog product appears; one
\* without a review has avg_sentiment = 0, avg_rating = 0 and
\* review_count = 0 and no null, and one with reviews has review_count = the
\* number of its review rows
C24_UnreviewedProductHasZeros ==
    /\ td_pc # "dim_product" =>
          \A i \in 1..Len(products) :
              \E r \in RowsOf(dim_product.rows) :
                  /\ r.product_id = clean_id_column(products[i].product_id)
                  /\ r.review_count = Num(Len(ReviewsOf(products[i].product_id)))
                  /\ ReviewsOf(products[i].product_id) = <<>> =>
                        r.avg_sentiment = Num(0) /\ r.avg_rating = Num(0)
    /\ t_pc # "dims" =>
          \A i \in 1..Len(products) :
              \E r \in RowsOf(Dim_Product) :
                  /\ r.product_id = products[i].product_id
                  /\ r.review_count = Num(Len(ReviewsOf(products[i].product_id)))
                  /\ ReviewsOf(products[i].product_id) = <<>> =>
                        r.avg_sentiment = Num(0) /\ r.avg_rating = Num(0)

\* the rows of Fact_Sales that come from the legacy extract
LegacyFactRows ==
    SelectSeq(Fact_Sales, LAMBDA r : \E i \in 1..Len(legacy) :
                  r.trans_id = IntToDigits(LEGACY_FIRST_ID + (i - 1))
                  /\ r.product_id = <<"P", "1", "0", "0">>)

\* C25: over a non-empty legacy extract transform.py completes its run, a
\* column or a value missing among date, customer_id, quantity and
\* total_revenue included, and every legacy record is a row of Fact_Sales
C25_LegacyMergedWithMissingFields ==
    has_legacy =>
        /\ t_pc # "raised"
        /\ TBuilt => Len(LegacyFactRows) = Len(legacy)

OrigTotal == SumSeq([i \in 1..Len(sales) |-> sales[i].total_revenue])
TransTotal == SumSeq([i \in 1..Len(Fact_Sales) |-> Fact_Sales[i].total_revenue])

\* d < 1 / k, for d = |OrigTotal - TransTotal| / OrigTotal x 100 and an
\* original total that is not 0
DBelow(k) ==
    IF OrigTotal > 0 THEN 100 * k * Abs(OrigTotal - TransTotal) < OrigTotal
    ELSE OrigTotal < 0

\* the outcomes the audit recorded for the revenue check
RevenueOutcomes ==
    SelectSeq(report.lines, LAMBDA l : l.name = "revenue preserved")

C26_WitnessZeroTotal ==
    /\ audit_pc = "done" /\ report.written
    /\ OrigTotal = 0 /\ Len(sales) > 0
    /\ RevenueOutcomes = <<check_fail("revenue preserved")>>

\* C27: in every state of a load of create_database.py over a published
\* database, a failing load included, the database is the complete previous
\* one or the complete new one
C27_DatabaseReplacedAsAWhole ==
    create_db_pc # "idle" => db \in {PreviousDb, loaded_db}

\* the customer ids of the raw extract, cleaned as both functions clean them
RawCustomerIds == {clean_id_column(customers[i].customer_id) : i \in 1..Len(customers)}

\* C28: in a run of transform_data.main, a fact row whose customer_id is in
\* the raw customer extract has a row of dim_customer with that id: the
\* de-duplication by id and by (name, city) removes no id a fact row names
C28_FactCustomerInDimension ==
    (TDBuilt /\ ~dim_customer.none) =>
        \A r \in RowsOf(fact_sales.rows) :
            r.customer_id \in RawCustomerIds =>
                \E c \in RowsOf(dim_customer.rows) : c.customer_id = r.customer_id

\* the marketing cost the fact rows of the bucket carry, in each fact table
TDAllocated ==
    SumSeq([i \in 1..Len(fact_sales.rows) |->
        IF fact_sales.rows[i].product_id = 1 THEN fact_sales.rows[i].marketing_cost ELSE 0])
RECURSIVE ReducedSum(_)
ReducedSum(s) ==
    IF s = <<>> THEN Rat(0, 1)
    ELSE Reduced(RatAdd(Reduced(Head(s)), ReducedSum(Tail(s))))

TAllocated ==
    ReducedSum([i \in 1..Len(Fact_Sales) |->
        IF Fact_Sales[i].product_id = <<"1">> THEN Fact_Sales[i].allocated_marketing_dzd
        ELSE Rat(0, 1)])

NonNegativeRevenues == \A i \in 1..Len(sales) : sales[i].total_revenue >= 0

\* no sale of the bucket has a proportional share above 30% of its revenue
NoRowCapped ==
    \A i \in 1..Len(sales) :
        ~RatLess(Rat(3 * sales[i].total_revenue, 10), ShareOf(sales[i]))

\* C29: in both fact tables the marketing cost allocated to the rows of a
\* (category, month) bucket with non-negative revenues is at most the spend
\* recorded for the bucket, and is the whole spend when no row is capped and
\* the revenue of the bucket is positive
C29_MarketingSpendConserved ==
    /\ (TDBuilt /\ NonNegativeRevenues) =>
          /\ TDAllocated <= TDBucketSpend
          /\ (NoRowCapped /\ BucketRevenue > 0) => TDAllocated = TDBucketSpend
    /\ (TBuilt /\ NonNegativeRevenues) =>
          /\ TAllocated.n <= BucketSpend * TAllocated.d
          /\ (NoRowCapped /\ BucketRevenue > 0) => TAllocated = Rat(BucketSpend, 1)

\* the recorded lines of one outcome
LinesOf(outcome) == Count(auditor.report_lines, LAMBDA l : l.outcome = outcome)

\* the totals of the auditor after the calls made so far
ScoreInvariant ==
    /\ auditor.total_checks = Len(auditor.report_lines)
    /\ auditor.quality_score2 = 2 * LinesOf("pass") + LinesOf("warning")
    /\ 0 <= auditor.quality_score2 /\ auditor.quality_score2 <= 2 * auditor.total_checks
    /\ 0 <= score_pct(auditor).n
    /\ score_pct(auditor).n <= 100 * score_pct(auditor).d
    /\ auditor.total_checks = 0 => score_pct(auditor).n = 0

\* one call: one more check, one more line at the end of the report, the
\* points of its outcome, and nothing else changed
ScoreStep ==
    /\ auditor'.total_checks = auditor.total_checks + 1
    /\ Len(auditor'.report_lines) = Len(auditor.report_lines) + 1
    /\ SubSeq(auditor'.report_lines, 1, Len(auditor.report_lines)) = auditor.report_lines
    /\ auditor'.quality_score2 - auditor.quality_score2
          = CASE auditor'.report_lines[Len(auditor'.report_lines)].outcome = "pass" -> 2
              [] auditor'.report_lines[Len(auditor'.report_lines)].outcome = "warning" -> 1
              [] OTHER -> 0
    /\ UNCHANGED <<inputs, td_tables, t_tables, td_pc, t_pc, disk, report, audit_pc>>

\* C30: after any sequence of check_pass, check_warning and check_fail
\* calls, total_checks is the number of calls, quality_score the number of
\* passes plus half the number of warnings, 0 <= quality_score <=
\* total_checks, the percentage is between 0 and 100 and 0 without a check;
\* each call appends exactly one line and changes no other state
C30_AuditorScoring == []ScoreInvariant /\ [][ScoreStep]_vars

\* two passes, a warning and a fail have been recorded: 2.5 out of 4
C30_Witness ==
    /\ audit_pc = "checking"
    /\ auditor.total_checks = 4 /\ auditor.quality_score2 = 5
    /\ LinesOf("pass") = 2 /\ LinesOf("warning") = 1 /\ LinesOf("fail") = 1

====
